---- MODULE Spec2Model ----
(***************************************************************************)
(* A model of the templet template engine: the tokenizer of                *)
(* src/templet.cpp, the tag parsers, the path resolver and the node        *)
(* evaluators of nodes.cpp (src/unnamed/part_004), and the string helpers  *)
(* of strutils.hpp, trim.hpp and split.hpp (src/unnamed/part_007).         *)
(*                                                                         *)
(* A std::string is a sequence of one-character strings.  A Data value is  *)
(* a record [type, v]: v is the text of a String, the sequence of elements *)
(* of a List, or the function from keys to values of a Mapper.  A DataMap  *)
(* is a function whose domain is a set of keys (character sequences).      *)
(* A call that can throw returns a record with an err field: "none", or    *)
(* the name of the exception class.                                        *)
(***************************************************************************)
EXTENDS Integers, Sequences, FiniteSets, TLC

VARIABLES text, parsed, nodes, values, ret, wsSentry, files, tok

vars == <<text, parsed, nodes, values, ret, wsSentry, files, tok>>

(***************************************************************************)
(* Characters                                                              *)
(***************************************************************************)
Lower == {"a", "b", "c", "d", "e", "f", "g", "h", "i", "j", "k", "l", "m", "n", "o", "p", "q", "r", "s", "t", "u", "v", "w", "x", "y", "z"}
Upper == {"A", "B", "C", "D", "E", "F", "G", "H", "I", "J", "K", "L", "M", "N", "O", "P", "Q", "R", "S", "T", "U", "V", "W", "X", "Y", "Z"}
Digits == {"0", "1", "2", "3", "4", "5", "6", "7", "8", "9"}

\* the vertical tab (0x0b), which has no TLA+ escape: the string holds the
\* character itself
VT == ""

\* std::isspace in the "C" locale
is_ws(c) == c \in {" ", "\t", "\n", VT, "\f", "\r"}

DigitVal(c) == CASE c = "0" -> 0 [] c = "1" -> 1 [] c = "2" -> 2 [] c = "3" -> 3
                 [] c = "4" -> 4 [] c = "5" -> 5 [] c = "6" -> 6 [] c = "7" -> 7
                 [] c = "8" -> 8 [] c = "9" -> 9

\* INT_MAX / 10 and INT_MAX % 10 for a 32-bit int: the overflow test of the
\* decimal accumulation (the magnitude of INT_MIN ends in 8)
INT_MAX_DIV10 == 214748364
INT_MAX_MOD10 == 7

(***************************************************************************)
(* std::string operations; positions are 1-based, 0 stands for npos        *)
(***************************************************************************)
Find(s, c) == IF \E i \in 1..Len(s) : s[i] = c
              THEN CHOOSE i \in 1..Len(s) : s[i] = c /\ \A j \in 1..(i-1) : s[j] # c
              ELSE 0

\* s.substr(from - 1): the suffix that starts at 1-based position from
Suffix(s, from) == SubSeq(s, from, Len(s))

\* name.find("..") != npos
HasDoubleDot(s) == \E i \in 1..(Len(s)-1) : s[i] = "." /\ s[i+1] = "."

starts_with(lhs, rhs) == /\ Len(lhs) >= Len(rhs)
                         /\ SubSeq(lhs, 1, Len(rhs)) = rhs

ends_with(lhs, rhs) == /\ Len(lhs) >= Len(rhs)
                       /\ SubSeq(lhs, Len(lhs) - Len(rhs) + 1, Len(lhs)) = rhs

\* index of the first character that is not whitespace, Len(s)+1 if none
FirstNonWs(s) == IF \E i \in 1..Len(s) : ~is_ws(s[i])
                 THEN CHOOSE i \in 1..Len(s) : ~is_ws(s[i]) /\ \A j \in 1..(i-1) : is_ws(s[j])
                 ELSE Len(s) + 1

\* index of the last character that is not whitespace, 0 if none
LastNonWs(s) == IF \E i \in 1..Len(s) : ~is_ws(s[i])
                THEN CHOOSE i \in 1..Len(s) : ~is_ws(s[i]) /\ \A j \in (i+1)..Len(s) : is_ws(s[j])
                ELSE 0

ltrimmed(s) == SubSeq(s, FirstNonWs(s), Len(s))

ltrim(s) == SubSeq(s, FirstNonWs(s), Len(s))

rtrim(s) == SubSeq(s, 1, LastNonWs(s))

trim(s) == ltrim(rtrim(s))

\* mylib::split: std::getline up to each separator; a trailing separator
\* yields no empty last token, and the empty string yields no token
RECURSIVE split(_, _)
split(in, sep) ==
    IF in = <<>> THEN <<>>
    ELSE LET pos == Find(in, sep) IN
         IF pos = 0 THEN <<in>>
         ELSE <<SubSeq(in, 1, pos - 1)>> \o split(Suffix(in, pos + 1), sep)

(***************************************************************************)
(* Exceptions and results                                                  *)
(***************************************************************************)
NoError == "none"
InvalidTagError == "InvalidTagError"
MissingTagError == "MissingTagError"
ExpressionSyntaxError == "ExpressionSyntaxError"
\* std::out_of_range thrown by std::string::erase(npos)
OutOfRange == "out_of_range"
RuntimeError == "runtime_error"

(***************************************************************************)
(* Data values (types.hpp)                                                 *)
(***************************************************************************)
DataValue(s) == [type |-> "String", v |-> s]
DataList(xs) == [type |-> "List", v |-> xs]
DataMapper(m) == [type |-> "Mapper", v |-> m]
\* the item of a null DataPtr
NullItem == [type |-> "Invalid", v |-> <<>>]

(***************************************************************************)
(* Name validation                                                         *)
(***************************************************************************)
genericNameValidator(c) == c \in Lower \/ c \in Upper \/ c \in Digits \/ c \in {"_", "-"}

specialNameValidator(c) == genericNameValidator(c) \/ c \in {"[", "]", "."}

isValidName(name) == \A i \in 1..Len(name) : genericNameValidator(name[i])

isValidNameExpression(name) ==
    /\ \A i \in 1..Len(name) : specialNameValidator(name[i])
    /\ ~HasDoubleDot(name)

(***************************************************************************)
(* parse_number: std::istringstream >> int >> std::ws, then peek() == EOF  *)
(***************************************************************************)
\* index of the last digit of the run of digits that starts at from
DigitRunEnd(s, from) ==
    IF \E i \in from..Len(s) : s[i] \notin Digits
    THEN (CHOOSE i \in from..Len(s) : s[i] \notin Digits /\ \A j \in from..(i-1) : s[j] \in Digits) - 1
    ELSE Len(s)

\* std::numeric_limits<int>::max() and min() of a 32-bit int
INT_MAX == INT_MAX_DIV10 * 10 + INT_MAX_MOD10
INT_MIN == (0 - INT_MAX) - 1

\* num_get accumulation into a 32-bit int; ovf is the failbit of an
\* out-of-range value, for which the limit of its sign is stored
RECURSIVE Accumulate(_, _, _)
Accumulate(ds, acc, neg) ==
    IF ds = <<>> THEN [ovf |-> FALSE, val |-> acc]
    ELSE LET d == DigitVal(Head(ds))
             mag == IF neg THEN 0 - acc ELSE acc
             lim == IF neg THEN INT_MAX_MOD10 + 1 ELSE INT_MAX_MOD10
         IN IF mag > INT_MAX_DIV10 \/ (mag = INT_MAX_DIV10 /\ d > lim)
            THEN [ovf |-> TRUE, val |-> IF neg THEN INT_MIN ELSE INT_MAX]
            ELSE Accumulate(Tail(ds), IF neg THEN acc * 10 - d ELSE acc * 10 + d, neg)

\* wsSentry is the standard library of the build: TRUE when std::ws is an
\* unformatted input function that constructs a sentry (LWG 415, as in the
\* libstdc++ of GCC 12), so that it sets failbit on a stream whose eofbit
\* the extraction of the int has already set; FALSE for a std::ws that only
\* skips whitespace.
\*
\* parse_number_state is parser >> std::ws and parser.peek() == EOF, after
\* the digits d0..dEnd of txt were read into acc.  result is the int that
\* the extraction stored: 0 when there was no digit.
parse_number_state(txt, d0, dEnd, acc) ==
    LET extracted == dEnd >= d0 /\ ~acc.ovf
        hitEof == dEnd = Len(txt)
        rest == Suffix(txt, dEnd + 1)
    IN [ok |-> /\ extracted
               /\ ~(wsSentry /\ hitEof)
               /\ \A i \in 1..Len(rest) : is_ws(rest[i]),
        result |-> IF dEnd >= d0 THEN acc.val ELSE 0]

\* parser >> result for the run of digits d0..dEnd
parse_number_run(txt, d0, dEnd, neg) ==
    parse_number_state(txt, d0, dEnd, Accumulate(SubSeq(txt, d0, dEnd), 0, neg))

\* parser >> result once the leading whitespace is skipped: an optional sign
parse_number_at(txt, i0) ==
    IF i0 <= Len(txt) /\ txt[i0] \in {"+", "-"}
    THEN parse_number_run(txt, i0 + 1, DigitRunEnd(txt, i0 + 1), txt[i0] = "-")
    ELSE parse_number_run(txt, i0, DigitRunEnd(txt, i0), FALSE)

parse_number(txt) == parse_number_at(txt, FirstNonWs(txt))

\* if(!parse_number(in, index)) throw; return index
checked_index(n) ==
    IF ~n.ok THEN [err |-> InvalidTagError, idx |-> 0]
    ELSE [err |-> NoError, idx |-> n.result]

parse_array_index(in) ==
    IF ~starts_with(in, <<"[">>) \/ ~ends_with(in, <<"]">>)
    THEN [err |-> InvalidTagError, idx |-> 0]
    ELSE checked_index(parse_number(SubSeq(in, 2, Len(in) - 1)))

\* index >= size() with the int index converted to std::size_t: a negative
\* int becomes a value above every vector size
IndexOutOfRange(idx, size) == idx < 0 \/ idx >= size

(***************************************************************************)
(* parse_tag: the path resolver                                            *)
(***************************************************************************)
TagResult(e, f, i) == [err |-> e, found |-> f, item |-> i]

RECURSIVE parse_tag_indexes(_, _, _, _, _)
RECURSIVE parse_tag_loop(_, _, _, _)

\* one round of the inner while loop of parse_tag, with the index parsed:
\* arr1 is what is left of the [n]...[m] suffix after this index
parse_tag_index(index, arr1, listRef, name, tag) ==
    IF index.err # NoError
    THEN [err |-> index.err, found |-> FALSE, item |-> NullItem, name |-> <<>>]
    ELSE IF arr1 # <<>> /\ arr1[1] # "["
    THEN [err |-> InvalidTagError, found |-> FALSE, item |-> NullItem, name |-> <<>>]
    ELSE IF IndexOutOfRange(index.idx, Len(listRef))
    THEN [err |-> NoError, found |-> FALSE, item |-> NullItem, name |-> <<>>]
    ELSE LET item == listRef[index.idx + 1]
         IN IF item.type # "List"
            THEN IF arr1 = <<>>
                 THEN [err |-> NoError, found |-> TRUE, item |-> item, name |-> name]
                 ELSE [err |-> NoError, found |-> FALSE, item |-> NullItem, name |-> <<>>]
            ELSE parse_tag_indexes(arr1, item.v, item, name, tag)

\* the inner while loop of parse_tag over the [n]...[m] suffix of a tag;
\* name is the rest of the path, cleared when the resolution stops
parse_tag_indexes(arr, listRef, lastItem, name, tag) ==
    IF arr = <<>> THEN [err |-> NoError, found |-> TRUE, item |-> lastItem, name |-> name]
    ELSE LET arrEndPos == Find(arr, "]")
         IN parse_tag_index(parse_array_index(SubSeq(arr, 1, arrEndPos)),
                            Suffix(arr, arrEndPos + 1), listRef, name, tag)

\* a dot step that takes a value that is not a Mapper for a missing key
parse_tag_dot_lenient(r) ==
    IF r.err # NoError THEN TagResult(r.err, FALSE, NullItem)
    ELSE IF r.name # <<>>
    THEN IF r.item.type # "Mapper"
         THEN TagResult(NoError, FALSE, NullItem)
         ELSE parse_tag_loop(r.name, r.item.v, TRUE, r.item)
    ELSE TagResult(NoError, r.found, r.item)

\* the end of one round of the outer while loop of parse_tag: r is what the
\* tag resolved to, r.name the rest of the path
parse_tag_dot(r) ==
    IF r.err # NoError THEN TagResult(r.err, FALSE, NullItem)
    ELSE IF r.name # <<>>
    THEN IF r.item.type # "Mapper"
         THEN TagResult(InvalidTagError, FALSE, NullItem)
         ELSE parse_tag_loop(r.name, r.item.v, TRUE, r.item)
    ELSE TagResult(NoError, r.found, r.item)

\* the outer while loop of parse_tag over the dot-separated tags of name
parse_tag_loop(name, mapRef, found, lastItem) ==
    IF name = <<>> THEN TagResult(NoError, found, lastItem)
    ELSE LET pos == Find(name, ".")
             tag == IF pos = 0 THEN name ELSE SubSeq(name, 1, pos - 1)
             name1 == IF pos = 0 THEN <<>> ELSE Suffix(name, pos + 1)
             arrPos == Find(tag, "[")
             tagName == IF arrPos = 0 THEN tag ELSE SubSeq(tag, 1, arrPos - 1)
         IN IF tagName = <<>> THEN TagResult(InvalidTagError, FALSE, NullItem)
            ELSE IF ~isValidName(tagName) THEN TagResult(InvalidTagError, FALSE, NullItem)
            ELSE IF tagName \notin DOMAIN mapRef THEN TagResult(NoError, FALSE, NullItem)
            ELSE IF arrPos = 0
            THEN parse_tag_dot([err |-> NoError, found |-> TRUE,
                                item |-> mapRef[tagName], name |-> name1])
            ELSE IF mapRef[tagName].type # "List" THEN TagResult(NoError, FALSE, NullItem)
            ELSE parse_tag_dot(parse_tag_indexes(Suffix(tag, arrPos), mapRef[tagName].v,
                                                 mapRef[tagName], name1, tag))

parse_tag(name, kv) == parse_tag_loop(name, kv, FALSE, NullItem)

\* a conversion that reports a value that is not a String as a missing tag
tag_string_skipping(res) ==
    IF res.err # NoError THEN [err |-> res.err, v |-> <<>>]
    ELSE IF ~res.found THEN [err |-> MissingTagError, v |-> <<>>]
    ELSE IF res.item.type # "String" THEN [err |-> MissingTagError, v |-> <<>>]
    ELSE [err |-> NoError, v |-> res.item.v]

\* [err, v]: the text of the String that res, a result of parse_tag, holds
tag_string(res) ==
    IF res.err # NoError THEN [err |-> res.err, v |-> <<>>]
    ELSE IF ~res.found THEN [err |-> MissingTagError, v |-> <<>>]
    ELSE IF res.item.type # "String" THEN [err |-> InvalidTagError, v |-> <<>>]
    ELSE [err |-> NoError, v |-> res.item.v]

parse_tag_string(name, kv) == tag_string(parse_tag(name, kv))

\* [err, v]: the elements of the List that res, a result of parse_tag, holds
tag_list(res) ==
    IF res.err # NoError THEN [err |-> res.err, v |-> <<>>]
    ELSE IF ~res.found THEN [err |-> MissingTagError, v |-> <<>>]
    ELSE IF res.item.type # "List" THEN [err |-> InvalidTagError, v |-> <<>>]
    ELSE [err |-> NoError, v |-> res.item.v]

parse_tag_list(name, kv) == tag_list(parse_tag(name, kv))

(***************************************************************************)
(* Nodes (nodes.hpp) and the tag parsers                                   *)
(***************************************************************************)
Node(t, n, a) == [type |-> t, name |-> n, alias |-> a, children |-> <<>>]

\* a Text that loses the first character of its block
Text_truncated(in) == Node("Text", SubSeq(in, 2, Len(in)), <<>>)

Text(in) == Node("Text", in, <<>>)

\* a block node that is left without the nodes of its body
setChildren_dropped(node, children) == node

setChildren(node, children) == [node EXCEPT !.children = children]

NodeResult(e, n) == [err |-> e, node |-> n]

NoNode == Node("Invalid", <<>>, <<>>)

\* Value::Value
Value(name) ==
    IF ~isValidNameExpression(name) THEN NodeResult(InvalidTagError, NoNode)
    ELSE NodeResult(NoError, Node("Value", name, <<>>))

\* IfValue::IfValue
IfValue(name) ==
    IF ~isValidNameExpression(name) THEN NodeResult(InvalidTagError, NoNode)
    ELSE NodeResult(NoError, Node("IfValue", name, <<>>))

\* ElifValue::ElifValue delegates to IfValue::IfValue
ElifValue(name) ==
    IF IfValue(name).err # NoError THEN NodeResult(IfValue(name).err, NoNode)
    ELSE NodeResult(NoError, Node("ElifValue", name, <<>>))

ElseValue == Node("ElseValue", <<>>, <<>>)

\* ForValue::ForValue
ForValue(name, alias) ==
    IF ~isValidNameExpression(name) THEN NodeResult(InvalidTagError, NoNode)
    ELSE IF ~isValidName(alias) THEN NodeResult(InvalidTagError, NoNode)
    ELSE NodeResult(NoError, Node("ForValue", name, alias))

parse_value_tag(in) ==
    IF ~starts_with(in, <<"{", "$">>) \/ ~ends_with(in, <<"}">>)
    THEN NodeResult(InvalidTagError, NoNode)
    ELSE LET in1 == Suffix(in, 3)
             in2 == SubSeq(in1, 1, Find(in1, "}") - 1)
         IN Value(trim(in2))

\* the common head of parse_ifvalue_tag, parse_elifvalue_tag and
\* parse_forvalue_tag: the delimiter test, erase(0, 2), erase(find('%')), trim
strip_block_tag(in) ==
    IF ~starts_with(in, <<"{", "%">>) \/ ~ends_with(in, <<"%", "}">>)
    THEN [err |-> InvalidTagError, in |-> <<>>]
    ELSE LET in1 == Suffix(in, 3)
         IN IF Find(in1, "%") = 0 THEN [err |-> OutOfRange, in |-> <<>>]
            ELSE [err |-> NoError, in |-> trim(SubSeq(in1, 1, Find(in1, "%") - 1))]

\* in = ltrim(in.erase(0, in.find(' ') + 1))
after_keyword(in) == ltrim(Suffix(in, Find(in, " ") + 1))

parse_ifvalue_tag(in) ==
    LET s == strip_block_tag(in)
    IN IF s.err # NoError THEN NodeResult(s.err, NoNode)
       ELSE IF ~starts_with(s.in, <<"i", "f", " ">>) THEN NodeResult(InvalidTagError, NoNode)
       ELSE IfValue(after_keyword(s.in))

parse_elifvalue_tag(in) ==
    LET s == strip_block_tag(in)
    IN IF s.err # NoError THEN NodeResult(s.err, NoNode)
       ELSE IF ~starts_with(s.in, <<"e", "l", "i", "f", " ">>) THEN NodeResult(InvalidTagError, NoNode)
       ELSE ElifValue(after_keyword(s.in))

\* a for tag parser that reports a malformed expression as an invalid tag
parse_forvalue_tag_invalid(in) ==
    LET s == strip_block_tag(in)
        tokens == split(s.in, " ")
    IN IF s.err # NoError THEN NodeResult(s.err, NoNode)
       ELSE IF Len(tokens) # 4 THEN NodeResult(InvalidTagError, NoNode)
       ELSE IF tokens[1] # <<"f", "o", "r">> \/ tokens[3] # <<"a", "s">>
       THEN NodeResult(InvalidTagError, NoNode)
       ELSE ForValue(tokens[2], tokens[4])

parse_forvalue_tag(in) ==
    LET s == strip_block_tag(in)
        tokens == split(s.in, " ")
    IN IF s.err # NoError THEN NodeResult(s.err, NoNode)
       ELSE IF Len(tokens) # 4 THEN NodeResult(ExpressionSyntaxError, NoNode)
       ELSE IF tokens[1] # <<"f", "o", "r">> \/ tokens[3] # <<"a", "s">>
       THEN NodeResult(ExpressionSyntaxError, NoNode)
       ELSE ForValue(tokens[2], tokens[4])

(***************************************************************************)
(* Node::evaluate.  A result is [os, err]: os is the output stream after   *)
(* the call, which keeps what was written before an exception.             *)
(***************************************************************************)
isBranch(node) == node.type = "ElifValue" \/ node.type = "ElseValue"

\* a loop that leaves its alias unbound
Bind_dropped(kv, alias, item) == kv

\* a binding that starts from an empty map and not from a copy of kv
Bind_alone(kv, alias, item) == [k \in {alias} |-> item]

\* kv with alias bound to item: newValues[_alias] = item
Bind(kv, alias, item) ==
    [k \in (DOMAIN kv) \cup {alias} |-> IF k = alias THEN item ELSE kv[k]]

RECURSIVE evaluate(_, _, _)
RECURSIVE evaluate_nodes(_, _, _)
RECURSIVE evaluate_until_branch(_, _, _)
RECURSIVE evaluate_branches(_, _, _)
RECURSIVE evaluate_items(_, _, _, _, _)

\* what a loop over nodes does after one node wrote r: stop at an exception
RECURSIVE then_nodes(_, _, _)
RECURSIVE then_until_branch(_, _, _)
RECURSIVE then_branches(_, _, _)
RECURSIVE then_items(_, _, _, _, _)

\* for(auto& node : _nodes) node->evaluate(os, kv)
evaluate_nodes(ns, os, kv) ==
    IF ns = <<>> THEN [os |-> os, err |-> NoError]
    ELSE then_nodes(evaluate(Head(ns), os, kv), Tail(ns), kv)

then_nodes(r, ns, kv) ==
    IF r.err # NoError THEN r ELSE evaluate_nodes(ns, r.os, kv)

\* the loop of IfValue::evaluate when the condition is set: children up to
\* the first Elif or Else
evaluate_until_branch(ns, os, kv) ==
    IF ns = <<>> \/ isBranch(Head(ns)) THEN [os |-> os, err |-> NoError]
    ELSE then_until_branch(evaluate(Head(ns), os, kv), Tail(ns), kv)

then_until_branch(r, ns, kv) ==
    IF r.err # NoError THEN r ELSE evaluate_until_branch(ns, r.os, kv)

\* the loop of IfValue::evaluate when the condition is not set: every child
\* that is an Elif or an Else
evaluate_branches(ns, os, kv) ==
    IF ns = <<>> THEN [os |-> os, err |-> NoError]
    ELSE IF ~isBranch(Head(ns)) THEN evaluate_branches(Tail(ns), os, kv)
    ELSE then_branches(evaluate(Head(ns), os, kv), Tail(ns), kv)

then_branches(r, ns, kv) ==
    IF r.err # NoError THEN r ELSE evaluate_branches(ns, r.os, kv)

\* the loop of ForValue::evaluate over the items of the list
evaluate_items(items, alias, ns, os, kv) ==
    IF items = <<>> THEN [os |-> os, err |-> NoError]
    ELSE then_items(evaluate_nodes(ns, os, Bind(kv, alias, Head(items))),
                    Tail(items), alias, ns, kv)

then_items(r, items, alias, ns, kv) ==
    IF r.err # NoError THEN r ELSE evaluate_items(items, alias, ns, r.os, kv)

\* os << parse_tag_string(_name, kv), MissingTagError caught and dropped
Value_write(s, os) ==
    IF s.err = NoError THEN [os |-> os \o s.v, err |-> NoError]
    ELSE IF s.err = MissingTagError THEN [os |-> os, err |-> NoError]
    ELSE [os |-> os, err |-> s.err]

\* a Value that lets MissingTagError escape instead of ignoring it
Value_evaluate_rethrow(node, os, kv) ==
    [os |-> os \o parse_tag_string(node.name, kv).v,
     err |-> parse_tag_string(node.name, kv).err]

Value_evaluate(node, os, kv) == Value_write(parse_tag_string(node.name, kv), os)

\* the body of IfValue::evaluate once parse_tag returned parsed_tag
IfValue_branch(parsed_tag, node, os, kv) ==
    IF parsed_tag.err # NoError THEN [os |-> os, err |-> parsed_tag.err]
    ELSE IF parsed_tag.found THEN evaluate_until_branch(node.children, os, kv)
    ELSE evaluate_branches(node.children, os, kv)

IfValue_evaluate(node, os, kv) == IfValue_branch(parse_tag(node.name, kv), node, os, kv)

\* a loop that does not look for its alias among the keys
ForValue_loop_unchecked(evaluatedList, node, os, kv) ==
    IF evaluatedList.err # NoError THEN [os |-> os, err |-> evaluatedList.err]
    ELSE evaluate_items(evaluatedList.v, node.alias, node.children, os, kv)

\* the body of ForValue::evaluate once parse_tag_list returned evaluatedList
ForValue_loop(evaluatedList, node, os, kv) ==
    IF evaluatedList.err # NoError THEN [os |-> os, err |-> evaluatedList.err]
    ELSE IF node.alias \in DOMAIN kv THEN [os |-> os, err |-> InvalidTagError]
    ELSE evaluate_items(evaluatedList.v, node.alias, node.children, os, kv)

ForValue_evaluate(node, os, kv) ==
    ForValue_loop(parse_tag_list(node.name, kv), node, os, kv)

evaluate(node, os, kv) ==
    CASE node.type = "Text" -> [os |-> os \o node.name, err |-> NoError]
      [] node.type = "Value" -> Value_evaluate(node, os, kv)
      [] node.type = "IfValue" -> IfValue_evaluate(node, os, kv)
      [] node.type = "ElifValue" -> IfValue_evaluate(node, os, kv)
      [] node.type = "ElseValue" -> evaluate_nodes(node.children, os, kv)
      [] node.type = "ForValue" -> ForValue_evaluate(node, os, kv)

(***************************************************************************)
(* Templet::tokenize.  A result is [nodes, in, err]: in is the input left  *)
(* in the by-reference argument when the call returns.                     *)
(***************************************************************************)
TokResult(ns, in, e) == [nodes |-> ns, in |-> in, err |-> e]

kw_endif == <<"e", "n", "d", "i", "f">>
kw_endfor == <<"e", "n", "d", "f", "o", "r">>
kw_if == <<"i", "f">>
kw_elif == <<"e", "l", "i", "f">>
kw_else == <<"e", "l", "s", "e">>
kw_for == <<"f", "o", "r">>

\* the node that the keyword at the head of inner makes of a block tag
block_tag_node(inner, tag) ==
    IF starts_with(inner, kw_if) THEN parse_ifvalue_tag(tag)
    ELSE IF starts_with(inner, kw_elif) THEN parse_elifvalue_tag(tag)
    ELSE IF starts_with(inner, kw_else) THEN NodeResult(NoError, ElseValue)
    ELSE IF starts_with(inner, kw_for) THEN parse_forvalue_tag(tag)
    ELSE NodeResult(InvalidTagError, NoNode)

\* an opening brace that is reported as a tag that does not end
unterminated_tag_rejected(ns, in) == TokResult(<<>>, in, InvalidTagError)

\* a "{" with no "}" after it: the rest of the input is one Text node and
\* the loop ends, ns being the nodes pushed so far
unterminated_tag(ns, in) == TokResult(Append(ns, Text(in)), <<>>, NoError)

\* an escaped tag that keeps its backslash
ignored_tag_unchanged(tag) == Text(tag)

\* the Text node of a tag that starts with "{\": the tag without the backslash
ignored_tag(tag) == Text(<<"{">> \o Suffix(tag, 3))

\* the while loop of tokenize, with the nodes pushed so far
RECURSIVE tokenize_loop(_, _)
tokenize_loop(ns, in) ==
    IF in = <<>> THEN TokResult(ns, in, NoError)
    ELSE LET pos == Find(in, "{") IN
      IF pos = 0 THEN TokResult(Append(ns, Text(in)), <<>>, NoError)
      ELSE LET ns1 == Append(ns, Text(SubSeq(in, 1, pos - 1)))
               in1 == Suffix(in, pos)
               end_pos == Find(in1, "}")
           IN
        IF end_pos = 0 THEN unterminated_tag(ns1, in1)
        ELSE LET tag == SubSeq(in1, 1, end_pos)
                 rest == Suffix(in1, end_pos + 1)
             IN
          IF tag[2] = "\\"
          THEN tokenize_loop(Append(ns1, ignored_tag(tag)), rest)
          ELSE IF tag[2] = "$"
          THEN LET node == parse_value_tag(tag)
               IN IF node.err # NoError THEN TokResult(<<>>, in1, node.err)
                  ELSE tokenize_loop(Append(ns1, node.node), rest)
          ELSE IF tag[2] = "%"
          THEN LET inner == ltrimmed(Suffix(tag, 3))
               IN IF starts_with(inner, kw_endif) THEN TokResult(ns1, rest, NoError)
                  ELSE IF starts_with(inner, kw_endfor) THEN TokResult(ns1, rest, NoError)
                  ELSE LET node == block_tag_node(inner, tag)
                           body == tokenize_loop(<<>>, rest)
                       IN IF node.err # NoError THEN TokResult(<<>>, in1, node.err)
                          ELSE IF body.err # NoError THEN TokResult(<<>>, body.in, body.err)
                          ELSE tokenize_loop(Append(ns1, setChildren(node.node, body.nodes)), body.in)
          ELSE TokResult(<<>>, in1, InvalidTagError)

tokenize(in) == tokenize_loop(<<>>, in)

(***************************************************************************)
(* The Templet object                                                      *)
(***************************************************************************)
EmptyMap == [k \in {} |-> NullItem]

Ret(op, e, out) == [op |-> op, err |-> e, out |-> out]

\* a Templet object: the members _text, _parsed and _nodes
Object(txt, buf, ns) == [text |-> txt, parsed |-> buf, nodes |-> ns]

\* Templet::Templet(text): the buffer and the node list are empty
Constructed(txt) == Object(txt, <<>>, <<>>)

\* a reset that leaves the buffer and the nodes as they are
reset_skipped(obj) == obj

\* Templet::reset: the object with its buffer and its node list emptied
reset(obj) == [obj EXCEPT !.parsed = <<>>, !.nodes = <<>>]

\* what Templet::parse leaves in the object and returns or throws, once
\* reset left the object r, tokenize returned toks and the loop over the
\* nodes, which writes after what the buffer of r holds, returned ev
parse_evaluated(r, toks, ev) ==
    IF toks.err # NoError
    THEN [parsed |-> r.parsed, nodes |-> r.nodes, err |-> toks.err, out |-> <<>>]
    ELSE IF ev.err # NoError
    THEN [parsed |-> ev.os, nodes |-> toks.nodes, err |-> ev.err, out |-> <<>>]
    ELSE [parsed |-> ev.os, nodes |-> toks.nodes, err |-> NoError, out |-> ev.os]

parse_tokenized(r, toks, kv) == parse_evaluated(r, toks, evaluate_nodes(toks.nodes, r.parsed, kv))

parse_reset(r, kv) == parse_tokenized(r, tokenize(r.text), kv)

\* Templet::parse(values) on the object obj
parse_outcome(obj, kv) == parse_reset(reset(obj), kv)

(***************************************************************************)
(* Inputs: keys, data maps and template texts                              *)
(***************************************************************************)
k_a == <<"a">>
k_b == <<"b">>
k_c == <<"c">>
k_d == <<"d">>
k_k == <<"k">>
k_l == <<"l">>
k_m == <<"m">>
k_n == <<"n">>
k_q == <<"q">>
k_x == <<"x">>
k_y == <<"y">>
k_xs == <<"x", "s">>

\* the longest run of spaces put around a name in a value tag
MaxWs == 1
\* the largest number of elif clauses of an if chain
MaxElif == 2
\* the longest list a for loop iterates over
MaxItems == 3

Str(s) == DataValue(s)

\* the list <<J, K, H>> cut to its first n elements
Items(n) == SubSeq(<<Str(<<"J">>), Str(<<"K">>), Str(<<"H">>), Str(<<"G">>)>>, 1, n)

NestedMap == DataMapper((k_k :> Str(<<"v">>))
                     @@ (k_n :> DataMapper(k_d :> Str(<<"d", "e", "e", "p">>)))
                     @@ (k_l :> DataList(<<Str(<<"u">>)>>)))

ListOfLists == DataList(<<DataList(<<Str(<<"p">>), Str(<<"q">>)>>), DataList(<<Str(<<"r">>)>>)>>)

\* every subset of {a, b, c} is the set of bound conditions of one map;
\* the bound values are Strings (one of them empty), Lists and Mappers
Env1 == EmptyMap
Env2 == (k_a :> Str(<<"A", "1">>)) @@ (k_xs :> DataList(Items(2)))
Env3 == (k_b :> Str(<<>>)) @@ (k_xs :> DataList(Items(0)))
Env4 == (k_c :> DataList(<<>>)) @@ (k_xs :> Str(<<"s", "t", "r">>))
Env5 == (k_a :> DataMapper(EmptyMap)) @@ (k_b :> Str(<<"B", "1">>)) @@ (k_xs :> NestedMap)
Env6 == (k_a :> Str(<<"A", "1">>)) @@ (k_c :> NestedMap) @@ (k_xs :> DataList(Items(2)))
          @@ (k_x :> Str(<<"z">>))
Env7 == (k_b :> DataList(<<Str(<<"u">>)>>)) @@ (k_c :> Str(<<"C", "1">>)) @@ (k_x :> Str(<<"z">>))
Env8 == (k_a :> Str(<<>>)) @@ (k_b :> Str(<<"B", "1">>)) @@ (k_c :> Str(<<"C", "1">>))
          @@ (k_xs :> ListOfLists)
Env9 == (k_m :> NestedMap) @@ (k_xs :> DataList(Items(MaxItems)))

Env10 == (k_xs :> DataList(<<>>)) @@ (k_x :> Str(<<"z">>))

Envs == {Env1, Env2, Env3, Env4, Env5, Env6, Env7, Env8, Env9, Env10}

Spaces(n) == [i \in 1..n |-> " "]

ValueTag(ws1, name, ws2) == <<"{", "$">> \o ws1 \o name \o ws2 \o <<"}">>
BlockTag(content) == <<"{", "%", " ">> \o content \o <<" ", "%", "}">>
IfTag(c) == BlockTag(kw_if \o <<" ">> \o c)
ElifTag(c) == BlockTag(kw_elif \o <<" ">> \o c)
ElseTag == BlockTag(kw_else)
EndifTag == BlockTag(kw_endif)
EndforTag == BlockTag(kw_endfor)
ForTag(src, alias) == BlockTag(kw_for \o <<" ">> \o src \o <<" ", "a", "s", " ">> \o alias)

\* a dotted name from a path of keys
RECURSIVE Dotted(_)
Dotted(path) == IF Len(path) = 1 THEN path[1]
                ELSE path[1] \o <<".">> \o Dotted(Tail(path))

\* templates without an opening brace
PlainTexts == {<<>>, <<"h", "e", "l", "l", "o", " ", "w", "o", "r", "l", "d">>, <<"}">>, <<"a", "}", "b">>, <<"$", "x", "}">>,
               <<"%", " ", "i", "f", " ", "a", " ", "%", "}">>}

\* a value tag between two pieces of text
ValuePre == <<"h", "i", " ">>
ValuePost == <<"!">>
WsChoices == {Spaces(n) : n \in 0..MaxWs} \cup {<<"\t">>}
ValuePaths == {<<k_a>>, <<k_b>>, <<k_q>>, <<k_m, k_k>>, <<k_m, k_q>>, <<k_m, k_n, k_d>>,
               <<k_m, k_n, k_q>>, <<k_q, k_k>>}
ValueTemplate(ws1, path, ws2) == ValuePre \o ValueTag(ws1, Dotted(path), ws2) \o ValuePost
ValueTemplates == {ValueTemplate(ws1, path, ws2) : ws1 \in WsChoices, path \in ValuePaths, ws2 \in WsChoices}


\* if chains: the i-th condition is CondKeys[i], the i-th body is B<i>, the
\* else body is E; nElif is the number of elif clauses
CondKeys == <<k_a, k_b, k_c, k_d, k_q>>
BodyDigits == <<"1", "2", "3", "4", "5">>
Body(i) == <<"B", BodyDigits[i]>>
ElseBody == <<"E">>

RECURSIVE ElifClauses(_, _)
ElifClauses(i, last) ==
    IF i > last THEN <<>>
    ELSE ElifTag(CondKeys[i]) \o Body(i) \o ElifClauses(i + 1, last)

Chain(first, nElif, hasElse) ==
    IfTag(CondKeys[1]) \o first \o ElifClauses(2, nElif + 1)
        \o (IF hasElse THEN ElseTag \o ElseBody ELSE <<>>) \o EndifTag

\* a body that is itself an if/else chain on x
NestedBody == IfTag(k_x) \o <<"P">> \o ElseTag \o <<"Q">> \o EndifTag

ElifCounts == 0..MaxElif
FirstBodies == {Body(1), NestedBody}
ChainTemplates == {Chain(first, n, e) : first \in FirstBodies, n \in ElifCounts, e \in BOOLEAN}

\* a chain between two pieces of text of the enclosing level
ChainPre == <<"P">>
ChainPost == <<"Z">>
AfterEndif(nElif, hasElse) == ChainPre \o Chain(Body(1), nElif, hasElse) \o ChainPost
AfterEndifTemplates == {AfterEndif(n, e) : n \in ElifCounts, e \in BOOLEAN}


\* for loops: the alias is x, the loop follows the text P
ForPre == <<"P">>
kw_as == <<"a", "s">>
ForPaths == {<<k_xs>>, <<k_m, k_l>>}
BodyKinds == {"empty", "text", "value", "spaced", "if", "nested"}
ForBody(kind) ==
    CASE kind = "empty" -> <<>>
      [] kind = "text" -> <<"-">>
      [] kind = "value" -> <<"[">> \o ValueTag(<<>>, k_x, <<>>) \o <<"]">>
      [] kind = "spaced" -> ValueTag(<<" ">>, k_x, <<" ">>) \o <<",">>
      [] kind = "if" -> IfTag(k_a) \o <<"Y">> \o EndifTag \o <<"R">>
      [] kind = "nested" -> ForTag(k_x, k_y) \o ValueTag(<<>>, k_y, <<>>) \o EndforTag \o <<";">>
ForTemplate(src, kind) == ForPre \o ForTag(src, k_x) \o ForBody(kind) \o EndforTag

\* a source with an index beyond the end of every list of the data maps
OutOfRangeSource == k_xs \o <<"[", "7", "]">>

\* a source with an index that no int holds
OverflowSource == k_xs \o <<"[", "2", "1", "4", "7", "4", "8", "3", "6", "4", "8", "]">>
IndexedSources == {OutOfRangeSource, OverflowSource}
ForSources == {Dotted(path) : path \in ForPaths} \cup IndexedSources
ForTemplates == {ForTemplate(src, kind) : src \in ForSources, kind \in BodyKinds}

\* an inner loop that takes the alias of the loop around it
InnerReuse == ForPre \o ForTag(k_xs, k_x) \o <<"i">>
                \o ForTag(k_xs, k_x) \o <<"-">> \o EndforTag \o EndforTag

\* for tags by their tokens: the keyword for, then up to MaxForTokens words
\* separated by single spaces
MaxForTokens == 3
ForWords == {k_xs, kw_as, k_x}
ForTokenSeqs == UNION {[1..n -> ForWords] : n \in 0..MaxForTokens}

RECURSIVE SpaceJoined(_)
SpaceJoined(ts) == IF ts = <<>> THEN <<>> ELSE <<" ">> \o Head(ts) \o SpaceJoined(Tail(ts))

ForGrammar(ts) == ForPre \o BlockTag(kw_for \o SpaceJoined(ts)) \o <<"-">> \o EndforTag

\* for tags whose words are not separated by single spaces, or whose first
\* or third token is another word
OddForContents == {
    <<"f", "o", "r", " ", " ", "x", "s", " ", "a", "s", " ", "x">>,
    <<"f", "o", "r", "\t", "x", "s", "\t", "a", "s", "\t", "x">>,
    <<"f", "o", "r", " ", "x", "s", " ", "i", "n", " ", "x">>,
    <<"f", "o", "r", "k", " ", "x", "s", " ", "a", "s", " ", "x">>,
    <<"f", "o", "r", " ", "x", "s", " ", "a", "s", " ", "x", " ", "y">>}
OddFor(content) == ForPre \o <<"{", "%">> \o content \o <<"%", "}">> \o <<"-">> \o EndforTag

ForGrammarTemplates == {ForGrammar(ts) : ts \in ForTokenSeqs} \cup {OddFor(c) : c \in OddForContents}


\* indexed names: a key followed by indexes, each written as a sequence of
\* characters
RECURSIVE Indexes(_)
Indexes(idxs) == IF idxs = <<>> THEN <<>>
                 ELSE <<"[">> \o Head(idxs) \o <<"]">> \o Indexes(Tail(idxs))
Indexed(r) == r.name \o Indexes(r.idxs)
Ref(name, idxs) == [name |-> name, idxs |-> idxs]

\* indexes that are within range for some list of the data maps, some of
\* them with leading zeros
InRangeRefs == {Ref(k_xs, <<<<"0">>>>), Ref(k_xs, <<<<"1">>>>), Ref(k_xs, <<<<"0", "1">>>>),
                Ref(k_xs, <<<<"0", "0", "0">>>>), Ref(k_xs, <<<<"2">>>>),
                Ref(k_xs, <<<<"1">>, <<"0">>>>), Ref(k_xs, <<<<"0">>, <<"1">>>>),
                Ref(k_xs, <<<<"0", "0">>, <<"0", "1">>>>)}

\* indexes beyond the end of every list, negative indexes, and indexes on a
\* String or on a String element of a list
NotFoundRefs == {Ref(k_xs, <<<<"7">>>>), Ref(k_xs, <<<<"-", "1">>>>),
                 Ref(k_xs, <<<<"2", "1", "4", "7", "4", "8", "3", "6", "4", "8">>>>),
                 Ref(k_xs, <<<<"0">>, <<"7">>>>),
                 Ref(k_a, <<<<"0">>>>), Ref(k_xs, <<<<"0">>, <<"0">>>>)}

IndexRefs == InRangeRefs \cup NotFoundRefs
IndexValueTemplate(r) == ValuePre \o ValueTag(<<" ">>, Indexed(r), <<" ">>) \o ValuePost
IndexIfTemplate(r) == ValuePre \o IfTag(Indexed(r)) \o <<"Y">> \o EndifTag \o ValuePost
IndexTemplates == {IndexValueTemplate(r) : r \in IndexRefs} \cup {IndexIfTemplate(r) : r \in IndexRefs}


\* a path of keys read by a value tag, by an if and by a for source
PathValueTemplate(path) == ValuePre \o ValueTag(<<" ">>, Dotted(path), <<" ">>) \o ValuePost
PathIfTemplate(path) == ValuePre \o IfTag(Dotted(path)) \o <<"Y">> \o EndifTag \o ValuePost
PathForTemplate(path) == ForTemplate(Dotted(path), "text")

\* paths of two and three keys: in some data map a key before the last is
\* bound to a String, to a List, or to a Mapper
DotPaths == {<<k_a, k_k>>, <<k_b, k_k>>, <<k_c, k_n, k_d>>, <<k_c, k_k, k_d>>,
             <<k_c, k_l, k_d>>, <<k_m, k_n, k_d>>, <<k_m, k_l, k_d>>}
\* paths that in some data map end at a List or at a Mapper
NonScalarPaths == {<<k_a>>, <<k_b>>, <<k_c>>, <<k_xs>>, <<k_m>>, <<k_m, k_n>>, <<k_m, k_l>>}
ReadPaths == DotPaths \cup NonScalarPaths
PathTemplates == {PathValueTemplate(path) : path \in ReadPaths}
                    \cup {PathIfTemplate(path) : path \in DotPaths}
                    \cup {PathForTemplate(path) : path \in DotPaths}

\* a "{" that no "}" follows, with what comes after it
UnterminatedTails == {<<"{">>, <<"{", "$">>, <<"{", "$", " ", "a">>,
                      <<"{", "%", " ", "i", "f", " ", "a", " ", "%">>,
                      <<"{", "\\">>, <<"{", "h", "e", "l", "l", "o", " ", "w">>,
                      <<"{", "%", " ", "f", "o", "r", " ", "x", "s", " ", "a", "s", " ", "x", " ", "%">>}
TailText == <<"a", "b", "c">>
TailAfterValue(tail) == ValueTag(<<>>, k_a, <<>>) \o TailText \o tail
TailInBlock(tail) == IfTag(k_a) \o <<"X">> \o tail
UnterminatedTemplates == UnterminatedTails
                            \cup {TailText \o tail : tail \in UnterminatedTails}
                            \cup {TailAfterValue(tail) : tail \in UnterminatedTails}
                            \cup {TailInBlock(tail) : tail \in UnterminatedTails}

\* contents of a tag that starts with "{\"
EscapedContents == {<<>>, <<"$", "a">>, <<"%", " ", "i", "f", " ", "a", " ", "%">>,
                    <<"\\", "$", "a">>, <<"\\", "\\">>, <<" ", "h", "i", " ">>,
                    <<"%", " ", "e", "n", "d", "i", "f", " ", "%">>}
EscapedTag(content) == <<"{", "\\">> \o content \o <<"}">>
EscapedTemplate(content) == <<"x">> \o EscapedTag(content) \o <<"y">> \o ValueTag(<<>>, k_a, <<>>)
EscapedInBlock(content) == IfTag(k_a) \o EscapedTag(content) \o EndifTag
EscapedTemplates == {EscapedTemplate(content) : content \in EscapedContents}
                        \cup {EscapedInBlock(content) : content \in EscapedContents}

\* complete brace spans that start with none of "\", "$", "%"
OtherLeadSpans == {<<"{", "w", "o", "r", "l", "d", "}">>, <<"{", "*", "w", "o", "r", "l", "d", "}">>,
                   <<"{", "}">>, <<"{", " ", "$", "a", "}">>}
\* block tags whose first word is none of if, elif, else, for, endif, endfor
OtherKeywordSpans == {BlockTag(<<"w", "h", "i", "l", "e", " ", "a">>),
                      BlockTag(<<>>),
                      BlockTag(<<"i", "f", "f", "y">>),
                      BlockTag(<<"i", "f", "a">>),
                      BlockTag(<<"e", "l", "i", "f", "a">>),
                      BlockTag(<<"e", "l", "s", "e", "w", "h", "e", "r", "e">>),
                      BlockTag(<<"f", "o", "r", "m", "a", "t", " ", "x">>),
                      BlockTag(<<"f", "o", "r", "m", "a", "t", " ", "x", "s", " ", "a", "s", " ", "x">>),
                      BlockTag(<<"e", "n", "d", "i", "f", "x">>),
                      BlockTag(<<"e", "n", "d", "f", "o", "r", "x">>)}
UnrecognizedPre == <<"h", "e", "l", "l", "o", " ">>
UnrecognizedPost == <<"Q">>
Unrecognized(span) == UnrecognizedPre \o span \o UnrecognizedPost
UnrecognizedTemplates == {Unrecognized(span) : span \in OtherLeadSpans \cup OtherKeywordSpans}
                            \cup {UnrecognizedPre \o span : span \in OtherLeadSpans}

\* an if block with two else clauses, without and with an elif before them
TwoElses == IfTag(k_a) \o <<"X">> \o ElseTag \o <<"Y">> \o ElseTag \o <<"Z">> \o EndifTag
TwoElsesAfterElif == IfTag(k_a) \o <<"X">> \o ElifTag(k_b) \o <<"W">> \o ElseTag \o <<"Y">>
                        \o ElseTag \o <<"Z">> \o EndifTag
MultiElseTemplates == {TwoElses, TwoElsesAfterElif}

\* an elif and an else that no if precedes
OrphanElif == ElifTag(k_a) \o <<"Y">> \o EndifTag
OrphanElse == ElseTag \o <<"Y">> \o EndifTag
OrphanElifElse == <<"A">> \o ElifTag(k_a) \o <<"Y">> \o ElseTag \o <<"N">> \o EndifTag
OrphanElseOpen == <<"A">> \o ElseTag \o <<"Y">>
OrphanTemplates == {OrphanElif, OrphanElse, OrphanElifElse, OrphanElseOpen}

\* names with a doubled, a leading and a trailing dot
DoubledDotNames == {<<"a", ".", ".", "b">>, <<"x", "s", ".", ".", "k">>}
LeadingDotNames == {<<".", "a">>, <<".", "x", "s">>, <<".">>}
TrailingDotNames == {<<"a", ".">>, <<"x", "s", ".">>, <<"m", ".", "k", ".">>}
BadDotNames == DoubledDotNames \cup LeadingDotNames \cup TrailingDotNames
NameValueTemplate(name) == ValuePre \o ValueTag(<<" ">>, name, <<" ">>) \o ValuePost
NameIfTemplate(name) == ValuePre \o IfTag(name) \o <<"Y">> \o EndifTag \o ValuePost
NameElifTemplate(name) == ValuePre \o IfTag(k_q) \o <<"N">> \o ElifTag(name) \o <<"Y">> \o EndifTag
NameForTemplate(name) == ForTemplate(name, "text")
BadDotTemplates == {NameValueTemplate(name) : name \in BadDotNames}
                      \cup {NameIfTemplate(name) : name \in BadDotNames}
                      \cup {NameElifTemplate(name) : name \in BadDotNames}
                      \cup {NameForTemplate(name) : name \in BadDotNames}

\* value tags with nothing but whitespace between "{$" and "}"
EmptyNameWs == {<<>>, <<" ">>, <<" ", " ", " ">>, <<"\t">>}
EmptyValueTemplate(ws) == ValuePre \o ValueTag(ws, <<>>, <<>>) \o ValuePost
EmptyValueTemplates == {EmptyValueTemplate(ws) : ws \in EmptyNameWs}

\* names whose bracket suffix is no sequence of [n] with n made of digits
BadBracketNames == {<<"x", "s", "[", "-", "1", "]">>, <<"x", "s", "[", "1", ".", "5", "6", "]">>,
                    <<"x", "s", "[", "0", "x", "0", "1", "]">>, <<"x", "s", "[", "x", "]">>,
                    <<"x", "s", "[", "]">>, <<"x", "s", "[", "[", "0", "]", "]">>,
                    <<"x", "s", "[", "0">>,
                    <<"x", "s", "[", "0", "]", "y", "s", "[", "1", "]">>}
BadBracketTemplates == {NameValueTemplate(name) : name \in BadBracketNames}
                          \cup {NameIfTemplate(name) : name \in BadBracketNames}
                          \cup {NameForTemplate(name) : name \in BadBracketNames}

\* a loop whose body reads the alias and a key of the data map, followed by
\* a value tag of the alias and one of that key
ScopeAfter == ForPre \o ForTag(k_xs, k_x)
                \o <<"[">> \o ValueTag(<<>>, k_x, <<>>) \o ValueTag(<<>>, k_a, <<>>) \o <<"]">>
                \o EndforTag \o ValueTag(<<>>, k_x, <<>>) \o ValueTag(<<>>, k_a, <<>>)
\* two loops, one after the other, with the same alias
ScopeSiblings == ForTag(k_xs, k_x) \o <<"-">> \o EndforTag
                    \o ForTag(k_xs, k_x) \o <<"+">> \o EndforTag
\* a loop over the alias of the loop around it, whose body reads its own
\* alias and a key of the data map; both aliases are read after the loops
ScopeInner == ForTag(k_xs, k_x)
                \o ForTag(k_x, k_y) \o ValueTag(<<>>, k_y, <<>>) \o ValueTag(<<>>, k_b, <<>>)
                \o EndforTag \o <<";">> \o EndforTag
                \o ValueTag(<<>>, k_y, <<>>) \o ValueTag(<<>>, k_x, <<>>)
ScopeTemplates == {ScopeAfter, ScopeSiblings, ScopeInner}

\* the files that can be opened when the object is constructed, with their
\* contents, and the paths given to setTemplateFromFile: one of them is no
\* file
FileSystem == ("example.tpl" :> PathValueTemplate(<<k_a>>))
                @@ ("plain.tpl" :> <<"h", "e", "l", "l", "o", " ", "w", "o", "r", "l", "d">>)
Paths == (DOMAIN FileSystem) \cup {"badfile.tpl"}

\* helpers::FileReader::fromFile: [err, v], the contents of the file or the
\* exception thrown when it cannot be opened
FileReader_fromFile(path) ==
    IF path \in DOMAIN files
    THEN [err |-> NoError, v |-> files[path]]
    ELSE [err |-> RuntimeError, v |-> <<>>]

\* the paths given to save: a path in a directory that does not exist,
\* which cannot be opened for writing, a file that exists and a file that
\* does not exist yet
Unwritable == {"nodir/out.tpl"}
SavePaths == {"example.tpl", "out.tpl"} \cup Unwritable

\* helpers::FileWriter::toFile: [err, files], the files once the text has
\* replaced the contents of the file, or the exception thrown when the file
\* cannot be opened
FileWriter_toFile(path, txt) ==
    IF path \in Unwritable
    THEN [err |-> RuntimeError, files |-> files]
    ELSE [err |-> NoError, files |-> [p \in (DOMAIN files) \cup {path} |-> IF p = path THEN txt ELSE files[p]]]

\* the objects that are moved into this one: each was constructed on a
\* template and is as its constructor or its last parse left it
OtherTexts == {PathValueTemplate(<<k_a>>), PathValueTemplate(<<k_xs>>)}
OtherEnvs == {Env2}
AfterParse(txt, o) == Object(txt, o.parsed, o.nodes)
Others == {Constructed(txt) : txt \in OtherTexts}
            \cup {AfterParse(txt, parse_outcome(Constructed(txt), kv)) : txt \in OtherTexts, kv \in OtherEnvs}

\* the templates, the data maps and the paths of the calls that are
\* followed together with the files that save writes
FileTemplates == OtherTexts \cup {FileSystem["plain.tpl"]}
FileEnvs == {Env1, Env2, Env4}
FilePaths == Paths \cup {"out.tpl"}

\* if blocks that the template does not close
UnclosedPre == <<"H", "e", "l", "l", "o", " ">>
UnclosedBody == <<"w", "o", "r", "l", "d">>
UnclosedIf == UnclosedPre \o IfTag(k_a) \o UnclosedBody
UnclosedIfValue == UnclosedPre \o IfTag(k_a) \o UnclosedBody \o ValueTag(<<>>, k_b, <<>>)
UnclosedOuter == IfTag(k_a) \o <<"D">> \o IfTag(k_b) \o <<"T">> \o EndifTag
UnclosedBoth == IfTag(k_a) \o <<"D">> \o IfTag(k_b) \o <<"T">>
UnclosedTemplates == {UnclosedIf, UnclosedIfValue, UnclosedOuter, UnclosedBoth}

\* blocks with a closing tag of the other kind before their own, and an if
\* in an if, each with its endif
IfThenEndfor == IfTag(k_a) \o <<"X">> \o EndforTag \o <<"Y">> \o EndifTag \o <<"Z">>
ForThenEndif == ForTag(k_xs, k_x) \o <<"-">> \o EndifTag \o <<"Y">> \o EndforTag \o <<"Z">>
IfInIf == IfTag(k_a) \o <<"X">> \o IfTag(k_b) \o <<"W">> \o EndifTag \o <<"Y">> \o EndifTag \o <<"Z">>
ForInIf == IfTag(k_a) \o ForTag(k_xs, k_x) \o <<"-">> \o EndforTag \o <<"Y">> \o EndifTag \o <<"Z">>
ClosingTemplates == {IfThenEndfor, ForThenEndif, IfInIf, ForInIf}

\* closing tags that no block precedes
StrayEndif == <<"A">> \o EndifTag \o <<"B">>
StrayEndfor == <<"A">> \o EndforTag \o <<"B">> \o ValueTag(<<>>, k_a, <<>>)
StrayTemplates == {StrayEndif, StrayEndfor}

Templates == PlainTexts \cup ValueTemplates \cup ChainTemplates \cup AfterEndifTemplates
                \cup ForTemplates \cup {InnerReuse} \cup ForGrammarTemplates
                \cup IndexTemplates \cup PathTemplates
                \cup UnterminatedTemplates \cup EscapedTemplates
                \cup UnrecognizedTemplates \cup MultiElseTemplates \cup OrphanTemplates
                \cup BadDotTemplates \cup EmptyValueTemplates \cup BadBracketTemplates
                \cup ScopeTemplates \cup UnclosedTemplates \cup ClosingTemplates \cup StrayTemplates

(***************************************************************************)
(* The operations of a Templet object                                      *)
(*   text, parsed, nodes : the members _text, _parsed and _nodes           *)
(*   values : the DataMap of the parse call that filled the buffer, the    *)
(*            empty map when the buffer has been reset                     *)
(*   ret : the last call, what it returned (out) or threw (err)            *)
(***************************************************************************)
(***************************************************************************)
(* Templet::tokenize, one round of its while loop per step.  tok holds the *)
(* string in that all the nested calls share by reference, and one frame   *)
(* per tokenize call that has not returned: the vector nodes of the call   *)
(* and, while the call waits for the body of a block tag, the node of that *)
(* tag.  iters counts the rounds of the loop of all calls.                 *)
(***************************************************************************)
Frame(ns, node) == [nodes |-> ns, node |-> node]

TokState(in, stack, status, e, iters) ==
    [in |-> in, stack |-> stack, status |-> status, err |-> e, iters |-> iters]

\* no tokenize call is open
NoTokenize == TokState(<<>>, <<>>, "idle", NoError, 0)

\* in from the first "{" on, the text before it, and the tag up to its "}"
in_from_tag(in) == Suffix(in, Find(in, "{"))
text_before_tag(in) == Text(SubSeq(in, 1, Find(in, "{") - 1))
tag_of(in) == SubSeq(in_from_tag(in), 1, Find(in_from_tag(in), "}"))
inner_of(in) == ltrimmed(Suffix(tag_of(in), 3))

\* an input that is not moved past the tag
after_tag_stuck(in) == in_from_tag(in)

\* in.substr(tag.size()).swap(in): the input after the tag
after_tag(in) == Suffix(in_from_tag(in), Len(tag_of(in)) + 1)

\* what the round of the loop that starts with the input in meets
round_kind(in) ==
    IF in = <<>> THEN "exit"
    ELSE IF Find(in, "{") = 0 THEN "text"
    ELSE IF Find(in_from_tag(in), "}") = 0 THEN "unterminated"
    ELSE IF tag_of(in)[2] = "\\" THEN "ignored"
    ELSE IF tag_of(in)[2] = "$" THEN "value"
    ELSE IF tag_of(in)[2] # "%" THEN "other"
    ELSE IF starts_with(inner_of(in), kw_endif) \/ starts_with(inner_of(in), kw_endfor)
    THEN "close"
    ELSE "block"

\* nodes.push_back in the call on top of the stack
push_back(stack, node) == [stack EXCEPT ![Len(stack)].nodes = Append(@, node)]

\* the call on top of the stack returns its nodes: they become the children
\* of the block node of the calling round, which pushes that node
returned(stack) ==
    IF Len(stack) = 1 THEN <<>>
    ELSE Append(SubSeq(stack, 1, Len(stack) - 2),
                Frame(Append(stack[Len(stack) - 1].nodes,
                             setChildren(stack[Len(stack) - 1].node, stack[Len(stack)].nodes)),
                      NoNode))

\* the state after the call on top of stack returned with in left
tokenize_returns(in, stack, iters) ==
    TokState(in, returned(stack), IF Len(stack) = 1 THEN "done" ELSE "running", NoError, iters)

\* the state after an exception left every open call
tokenize_throws(in, e, iters) == TokState(in, <<>>, "error", e, iters)

\* while(!in.empty()) is false: the call returns
TokenizeExit ==
    /\ tok.status = "running"
    /\ round_kind(tok.in) = "exit"
    /\ tok' = tokenize_returns(tok.in, tok.stack, tok.iters)
    /\ nodes' = IF Len(tok.stack) = 1 THEN tok.stack[1].nodes ELSE nodes
    /\ UNCHANGED <<text, parsed, values, ret, wsSentry, files>>

\* no "{" is left: the input is one Text node, and break
TokenizeText ==
    /\ tok.status = "running"
    /\ round_kind(tok.in) = "text"
    /\ tok' = tokenize_returns(<<>>, push_back(tok.stack, Text(tok.in)), tok.iters + 1)
    /\ nodes' = IF Len(tok.stack) = 1 THEN Append(tok.stack[1].nodes, Text(tok.in)) ELSE nodes
    /\ UNCHANGED <<text, parsed, values, ret, wsSentry, files>>

\* a "{" without "}": the text before it and the rest are Text nodes, and break
TokenizeUnterminated ==
    /\ tok.status = "running"
    /\ round_kind(tok.in) = "unterminated"
    /\ tok' = tokenize_returns(<<>>,
                    push_back(push_back(tok.stack, text_before_tag(tok.in)),
                              Text(in_from_tag(tok.in))),
                    tok.iters + 1)
    /\ nodes' = IF Len(tok.stack) = 1
                THEN tok.stack[1].nodes \o <<text_before_tag(tok.in), Text(in_from_tag(tok.in))>>
                ELSE nodes
    /\ UNCHANGED <<text, parsed, values, ret, wsSentry, files>>

\* a tag that starts with "{\"
TokenizeIgnored ==
    /\ tok.status = "running"
    /\ round_kind(tok.in) = "ignored"
    /\ tok' = TokState(after_tag(tok.in),
                       push_back(push_back(tok.stack, text_before_tag(tok.in)),
                                 ignored_tag(tag_of(tok.in))),
                       "running", NoError, tok.iters + 1)
    /\ UNCHANGED <<text, parsed, nodes, values, ret, wsSentry, files>>

\* a value tag: parse_value_tag builds the node or throws
TokenizeValue ==
    /\ tok.status = "running"
    /\ round_kind(tok.in) = "value"
    /\ tok' = IF parse_value_tag(tag_of(tok.in)).err # NoError
              THEN tokenize_throws(in_from_tag(tok.in), parse_value_tag(tag_of(tok.in)).err,
                                   tok.iters + 1)
              ELSE TokState(after_tag(tok.in),
                            push_back(push_back(tok.stack, text_before_tag(tok.in)),
                                      parse_value_tag(tag_of(tok.in)).node),
                            "running", NoError, tok.iters + 1)
    /\ UNCHANGED <<text, parsed, nodes, values, ret, wsSentry, files>>

\* an endif or endfor tag: the input moves past it, and break
TokenizeClose ==
    /\ tok.status = "running"
    /\ round_kind(tok.in) = "close"
    /\ tok' = tokenize_returns(after_tag(tok.in),
                               push_back(tok.stack, text_before_tag(tok.in)), tok.iters + 1)
    /\ nodes' = IF Len(tok.stack) = 1
                THEN Append(tok.stack[1].nodes, text_before_tag(tok.in))
                ELSE nodes
    /\ UNCHANGED <<text, parsed, values, ret, wsSentry, files>>

\* an if, elif, else or for tag: its parser builds the node or throws; the
\* input moves past the tag and a nested call collects the body
TokenizeBlock ==
    /\ tok.status = "running"
    /\ round_kind(tok.in) = "block"
    /\ tok' = IF block_tag_node(inner_of(tok.in), tag_of(tok.in)).err # NoError
              THEN tokenize_throws(in_from_tag(tok.in),
                                   block_tag_node(inner_of(tok.in), tag_of(tok.in)).err,
                                   tok.iters + 1)
              ELSE TokState(after_tag(tok.in),
                            Append([push_back(tok.stack, text_before_tag(tok.in))
                                        EXCEPT ![Len(tok.stack)].node =
                                            block_tag_node(inner_of(tok.in), tag_of(tok.in)).node],
                                   Frame(<<>>, NoNode)),
                            "running", NoError, tok.iters + 1)
    /\ UNCHANGED <<text, parsed, nodes, values, ret, wsSentry, files>>

\* a tag that starts with none of "\", "$", "%": InvalidTagError
TokenizeOther ==
    /\ tok.status = "running"
    /\ round_kind(tok.in) = "other"
    /\ tok' = tokenize_throws(in_from_tag(tok.in), InvalidTagError, tok.iters + 1)
    /\ UNCHANGED <<text, parsed, nodes, values, ret, wsSentry, files>>

\* the top-level call tokenize(copied) of parse, on a copy of the template
InitTokenize ==
    /\ text \in Templates
    /\ parsed = <<>>
    /\ nodes = <<>>
    /\ values = EmptyMap
    /\ ret = Ret("init", NoError, <<>>)
    /\ wsSentry \in BOOLEAN
    /\ files = FileSystem
    /\ tok = TokState(text, <<Frame(<<>>, NoNode)>>, "running", NoError, 0)

NextTokenize ==
    \/ TokenizeExit
    \/ TokenizeText
    \/ TokenizeUnterminated
    \/ TokenizeIgnored
    \/ TokenizeValue
    \/ TokenizeClose
    \/ TokenizeBlock
    \/ TokenizeOther

SpecTokenize == InitTokenize /\ [][NextTokenize]_vars

Init == /\ text = <<>>
        /\ parsed = <<>>
        /\ nodes = <<>>
        /\ values = EmptyMap
        /\ ret = Ret("init", NoError, <<>>)
        /\ wsSentry \in BOOLEAN
        /\ files = FileSystem
        /\ tok = NoTokenize

setTemplate(str) ==
    /\ text' = reset(Object(str, parsed, nodes)).text
    /\ parsed' = reset(Object(str, parsed, nodes)).parsed
    /\ nodes' = reset(Object(str, parsed, nodes)).nodes
    /\ values' = EmptyMap
    /\ ret' = Ret("setTemplate", NoError, <<>>)
    /\ UNCHANGED <<wsSentry, files, tok>>

parse(kv) ==
    LET o == parse_outcome(Object(text, parsed, nodes), kv)
    IN /\ parsed' = o.parsed
       /\ nodes' = o.nodes
       /\ values' = kv
       /\ ret' = Ret("parse", o.err, o.out)
       /\ UNCHANGED <<text, wsSentry, files, tok>>

result ==
    /\ ret' = Ret("result", NoError, parsed)
    /\ UNCHANGED <<text, parsed, nodes, values, wsSentry, files, tok>>

\* a failed read that is followed by a reset of the object
setTemplateFromFile_clearing(path) ==
    IF FileReader_fromFile(path).err # NoError
    THEN /\ ret' = Ret("setTemplateFromFile", FileReader_fromFile(path).err, <<>>)
         /\ parsed' = reset(Object(text, parsed, nodes)).parsed
         /\ nodes' = reset(Object(text, parsed, nodes)).nodes
         /\ UNCHANGED <<text, values, wsSentry, files, tok>>
    ELSE /\ text' = FileReader_fromFile(path).v
         /\ parsed' = reset(Object(FileReader_fromFile(path).v, parsed, nodes)).parsed
         /\ nodes' = reset(Object(FileReader_fromFile(path).v, parsed, nodes)).nodes
         /\ values' = EmptyMap
         /\ ret' = Ret("setTemplateFromFile", NoError, <<>>)
         /\ UNCHANGED <<wsSentry, files, tok>>

\* Templet::setTemplateFromFile: the exception of the reader leaves the
\* function before setTemplate is called
setTemplateFromFile(path) ==
    IF FileReader_fromFile(path).err # NoError
    THEN /\ ret' = Ret("setTemplateFromFile", FileReader_fromFile(path).err, <<>>)
         /\ UNCHANGED <<text, parsed, nodes, values, wsSentry, files, tok>>
    ELSE /\ text' = FileReader_fromFile(path).v
         /\ parsed' = reset(Object(FileReader_fromFile(path).v, parsed, nodes)).parsed
         /\ nodes' = reset(Object(FileReader_fromFile(path).v, parsed, nodes)).nodes
         /\ values' = EmptyMap
         /\ ret' = Ret("setTemplateFromFile", NoError, <<>>)
         /\ UNCHANGED <<wsSentry, files, tok>>

\* Templet::save: FileWriter::toFile(path, result()); the object is left as
\* it is
save(path) ==
    /\ files' = FileWriter_toFile(path, parsed).files
    /\ ret' = Ret("save", FileWriter_toFile(path, parsed).err, <<>>)
    /\ UNCHANGED <<text, parsed, nodes, values, wsSentry, tok>>

\* Templet::operator=(Templet&&), the object on the left: it takes the
\* text, the buffer and the nodes of the other object, an object that is
\* not this one
move_assign(other) ==
    /\ text' = other.text
    /\ parsed' = other.parsed
    /\ nodes' = other.nodes
    /\ values' = EmptyMap
    /\ ret' = Ret("operator=", NoError, <<>>)
    /\ UNCHANGED <<wsSentry, files, tok>>

\* Templet::operator=(Templet&&), the object on the right: the string, the
\* stream and the vector that were moved from are empty
moved_by_assign ==
    /\ text' = <<>>
    /\ parsed' = <<>>
    /\ nodes' = <<>>
    /\ values' = EmptyMap
    /\ ret' = Ret("moved", NoError, <<>>)
    /\ UNCHANGED <<wsSentry, files, tok>>

\* the byte 0 in a buffer: no character of a template is this value
NUL == "\\0"

\* the buffer of a stream that is move assigned to itself: the string of
\* the stream is cleared, which stores the byte 0 as its first character,
\* and the put position is restored at its old offset, so that str() keeps
\* the length and the other characters
self_moved(buf) == IF buf = <<>> THEN <<>> ELSE <<NUL>> \o Tail(buf)

\* Templet::operator=(Templet&&) with the object itself on the right
\* (t = std::move(t)): memberwise, the string is cleared, the vector is
\* emptied and the stream keeps its put position over the cleared string;
\* the standard calls the state valid but unspecified, this is libstdc++
self_move_assign ==
    /\ text' = <<>>
    /\ parsed' = self_moved(parsed)
    /\ nodes' = <<>>
    /\ values' = EmptyMap
    /\ ret' = Ret("operator=", NoError, <<>>)
    /\ UNCHANGED <<wsSentry, files, tok>>

\* Templet::Templet(Templet&&), the object it is constructed from: the
\* string and the vector are moved from, the buffer is copied
moved_by_constructor ==
    /\ text' = <<>>
    /\ nodes' = <<>>
    /\ values' = EmptyMap
    /\ ret' = Ret("moved", NoError, <<>>)
    /\ UNCHANGED <<parsed, wsSentry, files, tok>>

\* every call on the object, on all the templates and data maps; save is
\* given the path that cannot be written here, and every path in NextFiles
Next == \/ \E str \in Templates : setTemplate(str)
        \/ \E path \in Paths : setTemplateFromFile(path)
        \/ \E kv \in Envs : parse(kv)
        \/ result
        \/ \E path \in Unwritable : save(path)
        \/ \E other \in Others : move_assign(other)
        \/ moved_by_assign
        \/ moved_by_constructor
        \/ self_move_assign

Spec == Init /\ [][Next]_vars

\* the object with the files that it writes and reads: save with every
\* path, and every other call on a few templates and data maps
NextFiles ==
    \/ \E str \in FileTemplates : setTemplate(str)
    \/ \E path \in FilePaths : setTemplateFromFile(path)
    \/ \E kv \in FileEnvs : parse(kv)
    \/ result
    \/ \E path \in SavePaths : save(path)
    \/ \E other \in Others : move_assign(other)
    \/ moved_by_assign
    \/ moved_by_constructor
    \/ self_move_assign

SpecFiles == Init /\ [][NextFiles]_vars

(***************************************************************************)
(* Expected results, read off the data map without the resolver            *)
(***************************************************************************)
\* what a path of keys leads to: "missing" when a key is absent from the
\* map reached so far, "scalar" when it ends at a String, "list" or "map"
\* when it ends at one, "blocked" when a key before the last is bound to a
\* value that is not a Mapper
RECURSIVE PathCase(_, _)
PathCase(path, map) ==
    IF path[1] \notin DOMAIN map THEN "missing"
    ELSE LET it == map[path[1]]
         IN IF Len(path) = 1
            THEN CASE it.type = "String" -> "scalar"
                   [] it.type = "List" -> "list"
                   [] it.type = "Mapper" -> "map"
            ELSE IF it.type = "Mapper" THEN PathCase(Tail(path), it.v) ELSE "blocked"

\* the value a path of keys ends at, when PathCase is not missing or blocked
RECURSIVE PathItem(_, _)
PathItem(path, map) ==
    IF Len(path) = 1 THEN map[path[1]] ELSE PathItem(Tail(path), map[path[1]].v)

Parsed == ret.op = "parse"

(***************************************************************************)
(* C1: a template text without any '{' is returned by parse exactly as it  *)
(* is, for every data map (the empty text and a lone '}' included).        *)
(***************************************************************************)
C1_PlainTextUnchanged ==
    (Parsed /\ \A i \in 1..Len(text) : text[i] # "{")
        => (ret.err = NoError /\ ret.out = text)

C1_Witness ==
    /\ Parsed
    /\ text = <<"a", "}", "b">>
    /\ DOMAIN values # {}
    /\ ret.out = <<"a", "}", "b">>

(***************************************************************************)
(* C2: a value tag, with any whitespace around the name, renders the text  *)
(* of the String its name is bound to; when a key of the name is missing   *)
(* (at the root or along a dotted path through Mappers) it renders nothing *)
(* and no error is raised; the text around the tag is rendered.            *)
(***************************************************************************)
C2_ValueTagRenders ==
    \A ws1 \in WsChoices, ws2 \in WsChoices, path \in ValuePaths :
        (/\ Parsed
         /\ text = ValueTemplate(ws1, path, ws2)
         /\ PathCase(path, values) \in {"scalar", "missing"})
        => /\ ret.err = NoError
           /\ ret.out = ValuePre
                        \o (IF PathCase(path, values) = "scalar"
                            THEN PathItem(path, values).v ELSE <<>>)
                        \o ValuePost

C2_Witness ==
    /\ Parsed
    /\ text = ValueTemplate(Spaces(MaxWs), <<k_m, k_n, k_d>>, <<"\t">>)
    /\ PathCase(<<k_m, k_n, k_d>>, values) = "scalar"
    /\ ret.out = ValuePre \o <<"d", "e", "e", "p">> \o ValuePost


\* the number of the first clause of a chain of n conditions whose condition
\* is a key of map, 0 when none is
FirstBound(n, map) ==
    IF \E i \in 1..n : CondKeys[i] \in DOMAIN map
    THEN CHOOSE i \in 1..n : CondKeys[i] \in DOMAIN map
                             /\ \A j \in 1..(i-1) : CondKeys[j] \notin DOMAIN map
    ELSE 0

\* what a chain is to render: first is what its first body renders
ChainOutput(first, nElif, hasElse, map) ==
    LET i == FirstBound(nElif + 1, map)
    IN IF i = 1 THEN first
       ELSE IF i > 1 THEN Body(i)
       ELSE IF hasElse THEN ElseBody ELSE <<>>

\* what a first body is to render
FirstOutput(first, map) ==
    IF first = NestedBody THEN (IF k_x \in DOMAIN map THEN <<"P">> ELSE <<"Q">>)
    ELSE first

(***************************************************************************)
(* C3: an if/elif/else chain renders the body of the first clause whose    *)
(* condition is bound, whatever it is bound to, else the else body, else   *)
(* nothing; the bodies are texts or, for the first one, a nested if/else.  *)
(* The tokenizer of C4 closes the outer if at the endif of the nested      *)
(* chain, so the statement fails for a first body that is a chain.         *)
(***************************************************************************)
C3_FirstResolvingClause ==
    \A first \in FirstBodies, n \in ElifCounts, e \in BOOLEAN :
        (Parsed /\ text = Chain(first, n, e))
        => /\ ret.err = NoError
           /\ ret.out = ChainOutput(FirstOutput(first, values), n, e, values)

(***************************************************************************)
(* C4: the text after the endif of an if block is rendered once, after     *)
(* what the block renders, whichever clause is taken.  It fails as soon as *)
(* the block has an elif or an else: the clause swallows the text.         *)
(***************************************************************************)
C4_AfterEndifRendered ==
    \A n \in ElifCounts, e \in BOOLEAN :
        (Parsed /\ text = AfterEndif(n, e))
        => /\ ret.err = NoError
           /\ ret.out = ChainPre \o ChainOutput(Body(1), n, e, values) \o ChainPost


\* the texts of a sequence of Strings, one after the other
RECURSIVE Joined(_)
Joined(items) == IF items = <<>> THEN <<>> ELSE Head(items).v \o Joined(Tail(items))

AllStrings(items) == \A i \in 1..Len(items) : items[i].type = "String"

\* whether a body of a kind renders for the element elem without an error
BodyApplies(kind, elem, map) ==
    CASE kind \in {"empty", "text", "if"} -> TRUE
      [] kind \in {"value", "spaced"} -> elem.type = "String"
      [] kind = "nested" -> elem.type = "List" /\ AllStrings(elem.v) /\ k_y \notin DOMAIN map

\* what a body of a kind is to render with the alias bound to elem
BodyOutput(kind, elem, map) ==
    CASE kind = "empty" -> <<>>
      [] kind = "text" -> <<"-">>
      [] kind = "value" -> <<"[">> \o elem.v \o <<"]">>
      [] kind = "spaced" -> elem.v \o <<",">>
      [] kind = "if" -> (IF k_a \in DOMAIN map THEN <<"Y">> ELSE <<>>) \o <<"R">>
      [] kind = "nested" -> Joined(elem.v) \o <<";">>

RECURSIVE LoopOutput(_, _, _)
LoopOutput(kind, items, map) ==
    IF items = <<>> THEN <<>>
    ELSE BodyOutput(kind, Head(items), map) \o LoopOutput(kind, Tail(items), map)

(***************************************************************************)
(* C5: a for loop whose source is bound to a List of N elements and whose  *)
(* alias is not a key of the data map renders its body N times, in the     *)
(* order of the list, each time with the alias bound to the element, and   *)
(* puts nothing between the renderings (nothing at all when N = 0).        *)
(***************************************************************************)
C5_ForRendersEachElement ==
    \A path \in ForPaths, kind \in BodyKinds :
        (/\ Parsed
         /\ text = ForTemplate(Dotted(path), kind)
         /\ PathCase(path, values) = "list"
         /\ k_x \notin DOMAIN values
         /\ \A i \in 1..Len(PathItem(path, values).v) :
                BodyApplies(kind, PathItem(path, values).v[i], values))
        => /\ ret.err = NoError
           /\ ret.out = ForPre \o LoopOutput(kind, PathItem(path, values).v, values)

C5_Witness ==
    /\ Parsed
    /\ text = ForTemplate(k_xs, "value")
    /\ PathCase(<<k_xs>>, values) = "list"
    /\ values[k_xs].v = Items(MaxItems)
    /\ Len(ret.out) = Len(ForPre) + 3 * MaxItems
    /\ SubSeq(ret.out, 1, 7) = ForPre \o <<"[", "J", "]", "[", "K", "]">>


(***************************************************************************)
(* C6 as stated: a for loop whose alias is a key of the data map fails     *)
(* with InvalidTagError, whatever its source is.  It fails when the source *)
(* is not bound: the source is resolved first and MissingTagError raised.  *)
(***************************************************************************)
C6_AliasAlwaysInvalid ==
    \A path \in ForPaths, kind \in BodyKinds :
        (/\ Parsed
         /\ text = ForTemplate(Dotted(path), kind)
         /\ k_x \in DOMAIN values)
        => ret.err = InvalidTagError

(***************************************************************************)
(* C6, amended: a for loop whose alias is a key of the data map fails      *)
(* before its body is evaluated, and its source is resolved before its     *)
(* alias is checked.  With a source that is bound (to a List, an empty one *)
(* included, to a String or to a Mapper) the error is InvalidTagError;     *)
(* with a source of which a key is not bound it is MissingTagError; with a *)
(* source that is an index into a List beyond its end it is                *)
(* MissingTagError when the index is read as an int, and InvalidTagError   *)
(* when it is not: an index above INT_MAX, and every index on a build      *)
(* whose std::ws fails at the end of its input.  An inner loop that takes  *)
(* the alias of the loop around it fails with InvalidTagError in the first *)
(* iteration of the outer loop, and is not evaluated when the outer list   *)
(* is empty.                                                               *)
(***************************************************************************)
C6_AliasCollision ==
    /\ \A path \in ForPaths, kind \in BodyKinds :
        (/\ Parsed
         /\ text = ForTemplate(Dotted(path), kind)
         /\ k_x \in DOMAIN values)
        => /\ ret.err = IF PathCase(path, values) = "missing"
                        THEN MissingTagError ELSE InvalidTagError
           /\ parsed = ForPre
    /\ \A src \in IndexedSources, kind \in BodyKinds :
        (/\ Parsed
         /\ text = ForTemplate(src, kind)
         /\ k_x \in DOMAIN values)
        => /\ ret.err = IF /\ PathCase(<<k_xs>>, values) = "list"
                           /\ (wsSentry \/ src = OverflowSource)
                        THEN InvalidTagError ELSE MissingTagError
           /\ parsed = ForPre
    /\ (/\ Parsed
        /\ text = InnerReuse
        /\ PathCase(<<k_xs>>, values) = "list"
        /\ k_x \notin DOMAIN values)
       => IF values[k_xs].v # <<>>
          THEN ret.err = InvalidTagError /\ parsed = ForPre \o <<"i">>
          ELSE ret.err = NoError /\ ret.out = ForPre

C6_Witness ==
    /\ Parsed
    /\ text = ForTemplate(k_xs, "text")
    /\ k_x \in DOMAIN values
    /\ PathCase(<<k_xs>>, values) = "list"
    /\ values[k_xs].v = <<>>
    /\ ret.err = InvalidTagError

(***************************************************************************)
(* C7: a for loop whose source is not found, a missing key or an index     *)
(* beyond the end of the list, fails with MissingTagError; one whose       *)
(* source is bound to a String or a Mapper fails with InvalidTagError; the *)
(* buffer then holds the text before the loop only.  The index case fails: *)
(* see C10.                                                                *)
(***************************************************************************)
C7_ForSourceErrors ==
    \A kind \in BodyKinds :
        /\ \A path \in ForPaths :
            (Parsed /\ text = ForTemplate(Dotted(path), kind))
            => /\ PathCase(path, values) = "missing"
                    => (ret.err = MissingTagError /\ parsed = ForPre)
               /\ PathCase(path, values) \in {"scalar", "map"}
                    => (ret.err = InvalidTagError /\ parsed = ForPre)
        /\ (/\ Parsed
            /\ text = ForTemplate(OutOfRangeSource, kind)
            /\ PathCase(<<k_xs>>, values) = "list")
           => (ret.err = MissingTagError /\ parsed = ForPre)

\* whether the words after the keyword for make the tag for <source> as <alias>
WellFormedFor(ts) == Len(ts) = 3 /\ ts[2] = kw_as

(***************************************************************************)
(* C8: a for tag that is not the four tokens for, source, as, alias, with  *)
(* single spaces between them, makes parse fail with ExpressionSyntaxError *)
(* for every data map, before anything is evaluated: no nodes are kept and *)
(* the buffer stays empty.  A tag of that form does not raise it.          *)
(***************************************************************************)
C8_MalformedForSyntaxError ==
    /\ \A ts \in ForTokenSeqs :
        (Parsed /\ text = ForGrammar(ts))
        => IF WellFormedFor(ts)
           THEN ret.err # ExpressionSyntaxError
           ELSE ret.err = ExpressionSyntaxError /\ parsed = <<>> /\ nodes = <<>>
    /\ \A c \in OddForContents :
        (Parsed /\ text = OddFor(c))
        => (ret.err = ExpressionSyntaxError /\ parsed = <<>> /\ nodes = <<>>)

C8_Witness ==
    /\ Parsed
    /\ text = ForGrammar(<<k_xs>>)
    /\ PathCase(<<k_xs>>, values) = "list"
    /\ ret.err = ExpressionSyntaxError
    /\ parsed = <<>>


\* the number an index is written as: an optional minus sign and decimal
\* digits; an index of more than nine digits is beyond every list
RECURSIVE Decimal(_, _)
Decimal(ds, acc) == IF ds = <<>> THEN acc ELSE Decimal(Tail(ds), acc * 10 + DigitVal(Head(ds)))

IndexNumber(ds) ==
    IF Head(ds) = "-" THEN 0 - Decimal(Tail(ds), 0)
    ELSE IF Len(ds) > 9 THEN Decimal(SubSeq(ds, 1, 9), 0)
    ELSE Decimal(ds, 0)

\* what the indexes lead to from a value: "found" with the element, or
\* "none" when an index is applied to a value that is not a List or is
\* negative or beyond the end of the list
RECURSIVE Walk(_, _)
Walk(item, idxs) ==
    IF idxs = <<>> THEN [case |-> "found", item |-> item]
    ELSE IF item.type # "List" THEN [case |-> "none", item |-> NullItem]
    ELSE IF IndexNumber(Head(idxs)) < 0 \/ IndexNumber(Head(idxs)) >= Len(item.v)
    THEN [case |-> "none", item |-> NullItem]
    ELSE Walk(item.v[IndexNumber(Head(idxs)) + 1], Tail(idxs))

(***************************************************************************)
(* C9: a name with indexes that are all within range, each applied to a    *)
(* List, resolves to the element at those 0-based positions, lists of      *)
(* lists included, and leading zeros of an index do not count: a value tag *)
(* renders the String found and an if on the name renders its body.  It    *)
(* fails on a build whose std::ws sets failbit at the end of the stream:   *)
(* there parse_number rejects every index.                                 *)
(***************************************************************************)
C9_IndexInRangeResolves ==
    \A r \in InRangeRefs :
        (/\ Parsed
         /\ r.name \in DOMAIN values
         /\ Walk(values[r.name], r.idxs).case = "found")
        => /\ (text = IndexValueTemplate(r) /\ Walk(values[r.name], r.idxs).item.type = "String")
                => /\ ret.err = NoError
                   /\ ret.out = ValuePre \o Walk(values[r.name], r.idxs).item.v \o ValuePost
           /\ text = IndexIfTemplate(r)
                => /\ ret.err = NoError
                   /\ ret.out = ValuePre \o <<"Y">> \o ValuePost

(***************************************************************************)
(* C10: in a value tag and in an if, an index at or beyond the length of   *)
(* the list, a negative index and an index applied to a String (bound to   *)
(* the key, or an element of the list) resolve to not found: the value tag *)
(* renders nothing, the if does not render its body, no error is raised.   *)
(* It fails for an index above INT_MAX on every build, and for every index *)
(* applied to a List on a build whose std::ws sets failbit at the end of   *)
(* the stream.                                                             *)
(***************************************************************************)
C10_IndexNotFoundIsSilent ==
    \A r \in IndexRefs :
        (/\ Parsed
         /\ text \in {IndexValueTemplate(r), IndexIfTemplate(r)}
         /\ r.name \in DOMAIN values
         /\ Walk(values[r.name], r.idxs).case = "none")
        => /\ ret.err = NoError
           /\ ret.out = ValuePre \o ValuePost


(***************************************************************************)
(* C11: in a dotted path, a key that is followed by further keys and is    *)
(* bound to a String or a List makes the evaluation fail with              *)
(* InvalidTagError, in a value tag, in an if and in a for source; when it  *)
(* is bound to a Mapper the next key is looked up in that Mapper, so a     *)
(* path of three keys is resolved through two Mappers.                     *)
(***************************************************************************)
C11_DotOnlyThroughMappers ==
    \A path \in DotPaths :
        /\ (Parsed /\ text = PathValueTemplate(path))
            => /\ PathCase(path, values) = "blocked"
                    => (ret.err = InvalidTagError /\ parsed = ValuePre)
               /\ PathCase(path, values) = "scalar"
                    => (ret.err = NoError
                        /\ ret.out = ValuePre \o PathItem(path, values).v \o ValuePost)
        /\ (Parsed /\ text = PathIfTemplate(path))
            => /\ PathCase(path, values) = "blocked"
                    => (ret.err = InvalidTagError /\ parsed = ValuePre)
               /\ PathCase(path, values) \in {"scalar", "list", "map"}
                    => (ret.err = NoError /\ ret.out = ValuePre \o <<"Y">> \o ValuePost)
               /\ PathCase(path, values) = "missing"
                    => (ret.err = NoError /\ ret.out = ValuePre \o ValuePost)
        /\ (Parsed /\ text = PathForTemplate(path))
            => /\ PathCase(path, values) = "blocked"
                    => (ret.err = InvalidTagError /\ parsed = ForPre)
               /\ PathCase(path, values) = "missing"
                    => (ret.err = MissingTagError /\ parsed = ForPre)

\* a List in the middle of a path, under a Mapper, read by an if
C11_Witness ==
    /\ Parsed
    /\ text = PathIfTemplate(<<k_m, k_l, k_d>>)
    /\ PathCase(<<k_m, k_l>>, values) = "list"
    /\ ret.err = InvalidTagError
    /\ parsed = ValuePre

(***************************************************************************)
(* C12: a value tag whose path ends at a List or at a Mapper makes parse   *)
(* fail with InvalidTagError: nothing is returned, and the buffer holds    *)
(* the text before the tag only.                                           *)
(***************************************************************************)
C12_ValueOfNonScalarFails ==
    /\ \A path \in ReadPaths :
        (/\ Parsed
         /\ text = PathValueTemplate(path)
         /\ PathCase(path, values) \in {"list", "map"})
        => (ret.err = InvalidTagError /\ ret.out = <<>> /\ parsed = ValuePre)
    /\ \A ws1 \in WsChoices, ws2 \in WsChoices, path \in ValuePaths :
        (/\ Parsed
         /\ text = ValueTemplate(ws1, path, ws2)
         /\ PathCase(path, values) \in {"list", "map"})
        => (ret.err = InvalidTagError /\ ret.out = <<>> /\ parsed = ValuePre)

C12_Witness ==
    /\ Parsed
    /\ text = PathValueTemplate(<<k_m, k_n>>)
    /\ PathCase(<<k_m, k_n>>, values) = "map"
    /\ ret.err = InvalidTagError
    /\ parsed = ValuePre


(***************************************************************************)
(* C13: when a "{" has no "}" after it, parse raises no error and the rest *)
(* of the template from that "{" on is returned as it is written, after    *)
(* the output of what precedes it: at the start of the template, after     *)
(* text, after a value tag, and in the body of an if whose condition is    *)
(* bound (an if whose condition is unbound writes none of its body).       *)
(***************************************************************************)
C13_UnterminatedIsText ==
    \A tail \in UnterminatedTails :
        /\ (Parsed /\ text = tail)
            => (ret.err = NoError /\ ret.out = tail)
        /\ (Parsed /\ text = TailText \o tail)
            => (ret.err = NoError /\ ret.out = TailText \o tail)
        /\ (Parsed /\ text = TailAfterValue(tail) /\ PathCase(<<k_a>>, values) = "scalar")
            => (ret.err = NoError /\ ret.out = values[k_a].v \o TailText \o tail)
        /\ (Parsed /\ text = TailAfterValue(tail) /\ PathCase(<<k_a>>, values) = "missing")
            => (ret.err = NoError /\ ret.out = TailText \o tail)
        /\ (Parsed /\ text = TailInBlock(tail))
            => /\ ret.err = NoError
               /\ ret.out = IF k_a \in DOMAIN values THEN <<"X">> \o tail ELSE <<>>

\* an if tag that lacks its "}" is returned as text after a rendered value
C13_Witness ==
    /\ Parsed
    /\ text = TailAfterValue(<<"{", "%", " ", "i", "f", " ", "a", " ", "%">>)
    /\ ret.err = NoError
    /\ PathCase(<<k_a>>, values) = "scalar"
    /\ Len(values[k_a].v) > 0
    /\ ret.out = values[k_a].v \o TailText \o <<"{", "%", " ", "i", "f", " ", "a", " ", "%">>

(***************************************************************************)
(* C14: a tag that starts with "{\" reaches no tag parser: it is returned  *)
(* as text, braces kept and exactly the first backslash removed, whatever  *)
(* the content is (a value tag, an if, an endif, more backslashes,         *)
(* nothing), and the template goes on after it.                            *)
(***************************************************************************)
C14_EscapedTagIsLiteral ==
    \A content \in EscapedContents :
        /\ (Parsed /\ text = EscapedTemplate(content) /\ PathCase(<<k_a>>, values) = "scalar")
            => /\ ret.err = NoError
               /\ ret.out = <<"x", "{">> \o content \o <<"}", "y">> \o values[k_a].v
        /\ (Parsed /\ text = EscapedTemplate(content) /\ PathCase(<<k_a>>, values) = "missing")
            => /\ ret.err = NoError
               /\ ret.out = <<"x", "{">> \o content \o <<"}", "y">>
        /\ (Parsed /\ text = EscapedInBlock(content))
            => /\ ret.err = NoError
               /\ ret.out = IF k_a \in DOMAIN values
                            THEN <<"{">> \o content \o <<"}">> ELSE <<>>

\* an escaped value tag of a bound name is returned with its name unread
C14_Witness ==
    /\ Parsed
    /\ text = EscapedTemplate(<<"$", "a">>)
    /\ PathCase(<<k_a>>, values) = "scalar"
    /\ Len(values[k_a].v) > 0
    /\ ret.err = NoError
    /\ ret.out = <<"x", "{", "$", "a", "}", "y">> \o values[k_a].v


(***************************************************************************)
(* C15: a complete brace span that is not recognized makes the             *)
(* tokenization fail with InvalidTagError, so that nothing is written:     *)
(* a span that starts with none of "\", "$", "%", and a block tag whose    *)
(* first word is not exactly one of if, elif, else, for, endif, endfor.    *)
(***************************************************************************)
C15_UnrecognizedSpanRejected ==
    \A span \in OtherLeadSpans \cup OtherKeywordSpans :
        (Parsed /\ text = Unrecognized(span))
            => (ret.err = InvalidTagError /\ parsed = <<>> /\ nodes = <<>>)

(***************************************************************************)
(* C16: a complete brace span that starts with none of "$", "%", "\" is    *)
(* no tag: parse raises no error and returns the span as it is written,    *)
(* with the text around it.                                                *)
(***************************************************************************)
C16_OtherLeadSpanIsLiteral ==
    \A span \in OtherLeadSpans :
        /\ (Parsed /\ text = Unrecognized(span))
            => (ret.err = NoError /\ ret.out = text)
        /\ (Parsed /\ text = UnrecognizedPre \o span)
            => (ret.err = NoError /\ ret.out = text)

(***************************************************************************)
(* C17: an if block that holds two else clauses makes parse fail with      *)
(* InvalidTagError, whatever the data map binds.                           *)
(***************************************************************************)
C17_TwoElsesRejected ==
    (Parsed /\ text \in MultiElseTemplates) => ret.err = InvalidTagError

(***************************************************************************)
(* C18: an elif or an else that no if precedes makes parse fail with       *)
(* InvalidTagError; its body is never written.                             *)
(***************************************************************************)
C18_OrphanBranchRejected ==
    (Parsed /\ text \in OrphanTemplates)
        => (ret.err = InvalidTagError /\ ret.out = <<>>)

(***************************************************************************)
(* C19: a name with a doubled dot, with a dot in front or with a dot at    *)
(* its end makes parse fail with InvalidTagError, in a value tag, in an    *)
(* if or elif condition and in a for source, whatever the data map binds.  *)
(***************************************************************************)
C19_BadDotsRejected ==
    (Parsed /\ text \in BadDotTemplates) => ret.err = InvalidTagError

(***************************************************************************)
(* C20: a value tag with an empty name makes the tokenization fail with    *)
(* InvalidTagError: no node is built of the template.                      *)
(***************************************************************************)
C20_EmptyValueNameRejected ==
    (Parsed /\ text \in EmptyValueTemplates)
        => (ret.err = InvalidTagError /\ nodes = <<>>)


(***************************************************************************)
(* C21: a name whose bracket suffix is not a sequence of [n] with n an     *)
(* unsigned decimal number makes parse fail with InvalidTagError, in a     *)
(* value tag, in an if and in a for source, when the name before the       *)
(* bracket is bound to a List.                                             *)
(***************************************************************************)
C21_BadBracketRejected ==
    \A name \in BadBracketNames :
        (/\ Parsed
         /\ text \in {NameValueTemplate(name), NameIfTemplate(name), NameForTemplate(name)}
         /\ k_xs \in DOMAIN values
         /\ values[k_xs].type = "List")
        => ret.err = InvalidTagError

(***************************************************************************)
(* C22: when parse fails, what the failed call appended to the buffer is   *)
(* discarded: the buffer, which result() returns, is empty.                *)
(***************************************************************************)
C22_FailureDiscardsOutput ==
    (Parsed /\ ret.err # NoError) => parsed = <<>>

\* what parse returns or throws on an object built with the template txt and
\* not used before
fresh_parse(txt, kv) == parse_outcome(Constructed(txt), kv)

(***************************************************************************)
(* C23: whatever calls were made on the object before, and whatever they   *)
(* left in its buffer and its node list, parse returns or throws what it   *)
(* does on an object that was just built with the same template, and       *)
(* leaves the same buffer.  Nothing of an earlier call, be it successful   *)
(* or failed, is in the output: a template without '{' gives its own text, *)
(* and a value tag between two texts gives the two texts with the String   *)
(* of this call's data map between them, with nothing when the key is not  *)
(* bound, and fails after the first text when the key is bound to a List   *)
(* or a Mapper.                                                            *)
(***************************************************************************)
C23_ParseIsHistoryFree ==
    Parsed =>
        /\ ret.err = fresh_parse(text, values).err
        /\ ret.out = fresh_parse(text, values).out
        /\ parsed = fresh_parse(text, values).parsed
        /\ (\A i \in DOMAIN text : text[i] # "{")
                => (ret.err = NoError /\ ret.out = text /\ parsed = text)
        /\ \A k \in {k_a, k_xs} :
                text = PathValueTemplate(<<k>>)
                => CASE PathCase(<<k>>, values) = "scalar" ->
                            /\ ret.err = NoError
                            /\ ret.out = ValuePre \o values[k].v \o ValuePost
                     [] PathCase(<<k>>, values) = "missing" ->
                            /\ ret.err = NoError
                            /\ ret.out = ValuePre \o ValuePost
                     [] OTHER ->
                            /\ ret.err = InvalidTagError
                            /\ parsed = ValuePre

\* two earlier calls left their mark in the files that save wrote: a parse
\* with the key not bound returned the two texts alone, which no object that
\* is moved into this one holds, and a parse with the key bound to a List
\* failed and left the first text in the buffer; the parse that returned
\* last, with a String for the key, returned the two texts and the String
C23_Witness ==
    /\ Parsed
    /\ text = PathValueTemplate(<<k_xs>>)
    /\ "out.tpl" \in DOMAIN files
    /\ files["out.tpl"] = ValuePre \o ValuePost
    /\ files["example.tpl"] = ValuePre
    /\ values = Env4
    /\ ret.err = NoError
    /\ ret.out = ValuePre \o <<"s", "t", "r">> \o ValuePost
    /\ parsed = ret.out


\* what a value tag of the key k writes: the String bound to k, or nothing
ScalarOutput(k, map) == IF PathCase(<<k>>, map) = "scalar" THEN map[k].v ELSE <<>>

\* each String of items with suffix after it, between open and close
RECURSIVE EachItem(_, _, _, _)
EachItem(items, open, suffix, close) ==
    IF items = <<>> THEN <<>>
    ELSE open \o Head(items).v \o suffix \o close \o EachItem(Tail(items), open, suffix, close)

\* each list of lists with the Strings of its lists, every list closed by ";"
RECURSIVE EachInner(_, _)
EachInner(lists, suffix) ==
    IF lists = <<>> THEN <<>>
    ELSE EachItem(Head(lists).v, <<>>, suffix, <<>>) \o <<";">> \o EachInner(Tail(lists), suffix)

Repeated(c, n) == [i \in 1..n |-> c]

(***************************************************************************)
(* C24: a for loop leaves the data map as it found it.  In the body the    *)
(* keys of the data map are read together with the alias, also by an       *)
(* inner loop that iterates over the alias of the outer one; after the     *)
(* endfor the alias is unbound, so a value tag of it writes nothing and a  *)
(* second loop takes the same alias without a collision.                   *)
(***************************************************************************)
C24_ForExtendsAndRestores ==
    /\ (/\ Parsed /\ text = ScopeAfter
        /\ PathCase(<<k_xs>>, values) = "list" /\ AllStrings(values[k_xs].v)
        /\ k_x \notin DOMAIN values
        /\ PathCase(<<k_a>>, values) \in {"scalar", "missing"})
       => /\ ret.err = NoError
          /\ ret.out = ForPre
                        \o EachItem(values[k_xs].v, <<"[">>, ScalarOutput(k_a, values), <<"]">>)
                        \o ScalarOutput(k_a, values)
    /\ (/\ Parsed /\ text = ScopeSiblings
        /\ PathCase(<<k_xs>>, values) = "list"
        /\ k_x \notin DOMAIN values)
       => /\ ret.err = NoError
          /\ ret.out = Repeated("-", Len(values[k_xs].v)) \o Repeated("+", Len(values[k_xs].v))
    /\ (/\ Parsed /\ text = ScopeInner
        /\ PathCase(<<k_xs>>, values) = "list"
        /\ \A i \in 1..Len(values[k_xs].v) :
                values[k_xs].v[i].type = "List" /\ AllStrings(values[k_xs].v[i].v)
        /\ k_x \notin DOMAIN values /\ k_y \notin DOMAIN values
        /\ PathCase(<<k_b>>, values) \in {"scalar", "missing"})
       => /\ ret.err = NoError
          /\ ret.out = EachInner(values[k_xs].v, ScalarOutput(k_b, values))

\* an inner loop over the alias of the outer loop read a key of the data map
\* on every round, and both aliases wrote nothing after the loops
C24_Witness ==
    /\ Parsed
    /\ text = ScopeInner
    /\ PathCase(<<k_xs>>, values) = "list"
    /\ values[k_xs] = ListOfLists
    /\ PathCase(<<k_b>>, values) = "scalar"
    /\ Len(values[k_b].v) > 0
    /\ ret.err = NoError
    /\ ret.out = EachInner(ListOfLists.v, values[k_b].v)
    /\ Len(ret.out) = 3 * (1 + Len(values[k_b].v)) + 2


\* one call on the object, seen as a step, keeps the relation between the
\* buffer and what the calls return
C26_Step ==
    /\ (ret'.op = "result") => (ret'.out = parsed /\ parsed' = parsed /\ text' = text)
    /\ (ret'.op = "parse" /\ ret'.err = NoError) => (parsed' = ret'.out /\ text' = text)
    /\ (ret'.op = "setTemplate") => parsed' = <<>>
    /\ (ret'.op = "setTemplateFromFile" /\ ret'.err = NoError)
            => (parsed' = <<>> /\ text' \in {files[path] : path \in DOMAIN files})
    /\ (ret'.op = "setTemplateFromFile" /\ ret'.err # NoError)
            => (ret'.err = RuntimeError /\ parsed' = parsed /\ text' = text)

(***************************************************************************)
(* C26: result() returns the buffer and leaves it alone.  The buffer is    *)
(* empty on a new object and after every successful setTemplate or         *)
(* setTemplateFromFile; after a successful parse it is what parse          *)
(* returned; a setTemplateFromFile that cannot read its file changes       *)
(* neither the template nor the buffer.  So result() returns "" before the *)
(* first parse and the string of the latest parse afterwards.              *)
(***************************************************************************)
C26_ResultFollowsLastParse ==
    /\ parsed = <<>>
    /\ [][C26_Step]_vars

\* a file that cannot be read was given after a parse that returned output:
\* the buffer still holds that output
C26_Witness ==
    /\ ret.op = "setTemplateFromFile"
    /\ ret.err = RuntimeError
    /\ text = PathValueTemplate(<<k_a>>)
    /\ PathCase(<<k_a>>, values) = "scalar"
    /\ parsed = ValuePre \o values[k_a].v \o ValuePost


\* seq when the key k is bound in map, nothing otherwise
WhenBound(k, map, seq) == IF k \in DOMAIN map THEN seq ELSE <<>>

(***************************************************************************)
(* C27: an if block that the template does not close raises no error: all  *)
(* that follows its tag is its body, written when the condition is bound   *)
(* and left out when it is not; so it is for an if in an if when the       *)
(* template holds one endif or none.                                       *)
(***************************************************************************)
C27_UnclosedIfIsBody ==
    /\ (Parsed /\ text = UnclosedIf)
        => /\ ret.err = NoError
           /\ ret.out = UnclosedPre \o WhenBound(k_a, values, UnclosedBody)
    /\ (Parsed /\ text = UnclosedIfValue /\ PathCase(<<k_b>>, values) \in {"scalar", "missing"})
        => /\ ret.err = NoError
           /\ ret.out = UnclosedPre
                          \o WhenBound(k_a, values, UnclosedBody \o ScalarOutput(k_b, values))
    /\ (Parsed /\ text \in {UnclosedOuter, UnclosedBoth})
        => /\ ret.err = NoError
           /\ ret.out = WhenBound(k_a, values, <<"D">> \o WhenBound(k_b, values, <<"T">>))

\* the unclosed if wrote its body, a value tag included
C27_Witness ==
    /\ Parsed
    /\ text = UnclosedIfValue
    /\ k_a \in DOMAIN values
    /\ PathCase(<<k_b>>, values) = "scalar"
    /\ Len(values[k_b].v) > 0
    /\ ret.err = NoError
    /\ ret.out = UnclosedPre \o UnclosedBody \o values[k_b].v

\* whether the character c is in seq
Occurs(c, seq) == \E i \in 1..Len(seq) : seq[i] = c

(***************************************************************************)
(* C28: the body of an if is ended by an endif only and the body of a for  *)
(* by an endfor only, each at the depth of its block.  So the text between *)
(* an endfor and the endif of an if belongs to the if and is not written   *)
(* when the condition is unbound, the text between an endif and the endfor *)
(* of a for is not written when the list is empty, and a block in an if    *)
(* takes one closing tag and leaves the endif to the if.                   *)
(***************************************************************************)
C28_ClosingTagsMatchBlocks ==
    /\ (Parsed /\ text = IfThenEndfor /\ ret.err = NoError /\ k_a \notin DOMAIN values)
        => ~Occurs("Y", ret.out)
    /\ (Parsed /\ text = ForThenEndif /\ ret.err = NoError
        /\ PathCase(<<k_xs>>, values) = "list" /\ values[k_xs].v = <<>>)
        => ~Occurs("Y", ret.out)
    /\ (Parsed /\ text = IfInIf)
        => /\ ret.err = NoError
           /\ ret.out = WhenBound(k_a, values, <<"X">> \o WhenBound(k_b, values, <<"W">>) \o <<"Y">>)
                          \o <<"Z">>
    /\ (Parsed /\ text = ForInIf /\ k_a \notin DOMAIN values)
        => (ret.err = NoError /\ ret.out = <<"Z">>)

(***************************************************************************)
(* C29: when the tokenization of the template returns without an error,    *)
(* no input is left: what follows an endif or endfor that closes no block  *)
(* is tokenized and written as well.                                       *)
(***************************************************************************)
C29_TokenizeConsumesAll ==
    /\ (Parsed /\ ret.err = NoError) => tokenize(text).in = <<>>
    /\ (Parsed /\ text = StrayEndif) => (ret.err = NoError => Occurs("B", ret.out))


\* the input left is the end of the template: the cursor only moves forward
IsCursor(in, txt) == Len(in) <= Len(txt) /\ in = Suffix(txt, Len(txt) - Len(in) + 1)

\* in every state of the loop, the rounds made and the calls open are no
\* more than the characters of the template
C30_Bounded ==
    tok.status # "idle"
        => /\ IsCursor(tok.in, text)
           /\ tok.iters <= Len(text)
           /\ Len(tok.stack) <= Len(text) + 1
           /\ tok.status \in {"running", "done"} => tok.iters <= Len(text) - Len(tok.in)

\* the input left and the calls open, as one number
Remaining(t) == 2 * Len(t.in) + Len(t.stack)

\* one round of the loop, in whatever call, throws, ends its call, or
\* leaves less input than it found; each step of a call lowers Remaining
C30_Progress ==
    tok.status = "running"
        => /\ \/ tok'.status = "error"
              \/ Len(tok'.stack) < Len(tok.stack)
              \/ Len(tok'.in) < Len(tok.in)
           /\ Remaining(tok') < Remaining(tok)
           /\ tok'.iters \in {tok.iters, tok.iters + 1}

(***************************************************************************)
(* C30: tokenize terminates on every template.  Every round of the loop,   *)
(* at every depth, throws, stops its loop or strictly shortens the input,  *)
(* which is always the end of the template; every step lowers a natural    *)
(* number, so no run of the loop goes on for ever; and the number of       *)
(* rounds and the depth of the calls never exceed the length of the        *)
(* template.                                                               *)
(***************************************************************************)
C30_TokenizeTerminates == [][C30_Bounded /\ C30_Progress /\ C30_Bounded']_vars

\* the tokenization of an if in an if is over after rounds at three depths,
\* and the loop leaves the nodes that tokenize returns
C30_Witness ==
    /\ text = IfInIf
    /\ tok.status = "done"
    /\ tok.in = <<>>
    /\ tok.iters = 5
    /\ Len(nodes) = 3
    /\ nodes[2].type = "IfValue"
    /\ Len(nodes[2].children) = 3
    /\ tokenize(text).err = NoError
    /\ tokenize(text).nodes = nodes
    /\ tokenize(text).in = tok.in


====
